---------------------------- MODULE Spec2Model ----------------------------
(***************************************************************************)
(* Content conversion engine of telegraph-js (src/src/utils.ts):           *)
(* htmlToNodes, markdownToHtml, parseContent and the tree serializers;     *)
(* the template parser parseHtmlToNodes (src/src/templates.ts) and the     *)
(* request method Telegraph.apiRequest (src/src/client.ts).                *)
(*                                                                         *)
(* Representation.                                                         *)
(*   - A JS string is a sequence of one-character strings.                 *)
(*   - A text leaf (a JS string inside a tree) is the record [text |-> s]. *)
(*   - An element is a record with field tag and, only when the JS object  *)
(*     has them, the fields attrs and children.                            *)
(*   - A JS object used as attribute map is a sequence of <<key, value>>   *)
(*     pairs in insertion order (keys are never integer-like here).        *)
(*   - A tree (Node[]) is a sequence of nodes.                             *)
(***************************************************************************)
EXTENDS Naturals, Sequences, FiniteSets, TLC

VARIABLES fn, arg, pc, html, lastIndex, stack, nodes, codeBlocks, inlineCodes, result,
          request, returned, pageList, pageIndex, exportedPages

vars == <<fn, arg, pc, html, lastIndex, stack, nodes, codeBlocks, inlineCodes, result,
          request, returned, pageList, pageIndex, exportedPages>>

(***************************************************************************)
(* Characters and character classes of the regular expressions.            *)
(***************************************************************************)
NL == "\n"
TAB == "\t"
DQ == "\""
SQ == "'"

Upper == <<"A","B","C","D","E","F","G","H","I","J","K","L","M",
           "N","O","P","Q","R","S","T","U","V","W","X","Y","Z">>
Lower == <<"a","b","c","d","e","f","g","h","i","j","k","l","m",
           "n","o","p","q","r","s","t","u","v","w","x","y","z">>
Digits == <<"0","1","2","3","4","5","6","7","8","9">>

Range(f) == {f[i] : i \in DOMAIN f}

\* \d
IsDigit(c) == c \in Range(Digits)
\* \w  ([A-Za-z0-9_])
IsWord(c) == c \in Range(Upper) \cup Range(Lower) \cup Range(Digits) \cup {"_"}
\* [\w-]
IsNameChar(c) == IsWord(c) \/ c = "-"
\* \s restricted to the white space of the model's inputs
IsSpace(c) == c \in {" ", TAB, NL}
\* the line terminators that "." does not match and that ^ and $ (flag m) see
IsLineTerminator(c) == c = NL
\* ["']
IsQuote(c) == c \in {DQ, SQ}

\* String.prototype.toLowerCase, one character
LowerChar(c) ==
  IF c \in Range(Upper) THEN Lower[CHOOSE i \in DOMAIN Upper : Upper[i] = c] ELSE c

toLowerCase(s) == [i \in DOMAIN s |-> LowerChar(s[i])]

(***************************************************************************)
(* String helpers.  Positions are 1-based; 0 stands for "not found".       *)
(***************************************************************************)
Min(S) == CHOOSE x \in S : \A y \in S : x <= y
Max(S) == CHOOSE x \in S : \A y \in S : x >= y

\* the first position >= i holding c, or 0
IndexOfChar(s, c, i) ==
  LET hits == {j \in i..Len(s) : s[j] = c}
  IN IF hits = {} THEN 0 ELSE Min(hits)

\* the first position >= i holding a quote, or 0
IndexOfQuote(s, i) ==
  LET hits == {j \in i..Len(s) : IsQuote(s[j])}
  IN IF hits = {} THEN 0 ELSE Min(hits)

\* the last position of the maximal run of [\w-] that starts at i (i - 1 when empty)
NameEnd(s, i) ==
  LET stops == {j \in i..Len(s) : ~IsNameChar(s[j])}
  IN IF stops = {} THEN Len(s) ELSE Min(stops) - 1

\* s.includes(c)
Includes(s, c) == \E i \in DOMAIN s : s[i] = c

\* whether the characters of t stand in s at position i
StartsAt(s, t, i) ==
  /\ i >= 1
  /\ i + Len(t) - 1 <= Len(s)
  /\ \A k \in 1..Len(t) : s[i + k - 1] = t[k]

RECURSIVE Concat(_)
\* the concatenation of a sequence of strings
Concat(ss) == IF ss = <<>> THEN <<>> ELSE Head(ss) \o Concat(Tail(ss))

\* htmlToNodes: the tokenizer (utils.ts 16, 21-22).
\*   tagRegex = /<(\/?)([\w-]+)([^>]*)>|([^<]+)/g
NoMatch == [kind |-> "none", closing |-> FALSE, tagName |-> <<>>,
            attrString |-> <<>>, text |-> <<>>, start |-> 0, end |-> 0]

\* the first alternative tried at position i, where s[i] = "<"
TagMatchAt(s, i) ==
  LET closing == i + 1 <= Len(s) /\ s[i + 1] = "/"
      ns == IF closing THEN i + 2 ELSE i + 1
      ne == NameEnd(s, ns)
      gt == IndexOfChar(s, ">", ne + 1)
  IN IF ne >= ns /\ gt # 0
     THEN [kind |-> "tag", closing |-> closing, tagName |-> SubSeq(s, ns, ne),
           attrString |-> SubSeq(s, ne + 1, gt - 1), text |-> <<>>,
           start |-> i, end |-> gt]
     ELSE NoMatch

\* the second alternative at position i, where s[i] # "<": the longest run of [^<]
TextMatchAt(s, i) ==
  LET lt == IndexOfChar(s, "<", i)
      e == IF lt = 0 THEN Len(s) ELSE lt - 1
  IN [kind |-> "text", closing |-> FALSE, tagName |-> <<>>, attrString |-> <<>>,
      text |-> SubSeq(s, i, e), start |-> i, end |-> e]

\* the leftmost match at a position >= i: at each position the tag alternative is
\* tried first, then the text alternative
ExecFrom(s, i) ==
  LET hits == {j \in i..Len(s) : s[j] # "<" \/ TagMatchAt(s, j).kind = "tag"}
  IN IF hits = {} THEN NoMatch
     ELSE IF s[Min(hits)] # "<" THEN TextMatchAt(s, Min(hits))
     ELSE TagMatchAt(s, Min(hits))

\* tagRegex.exec(html) with tagRegex.lastIndex = li (0-based offset)
tagRegexExec(s, li) == ExecFrom(s, li + 1)

\* htmlToNodes: attribute parsing (utils.ts 50-57).
\*   attrRegex = /([\w-]+)=["']([^"']*)["']/g
NoAttr == [ok |-> FALSE, name |-> <<>>, value |-> <<>>, end |-> 0]

AttrMatchAt(a, j) ==
  LET ne == NameEnd(a, j)
      q == IndexOfQuote(a, ne + 3)
  IN IF /\ ne >= j
        /\ ne + 2 <= Len(a)
        /\ a[ne + 1] = "="
        /\ IsQuote(a[ne + 2])
        /\ q # 0
     THEN [ok |-> TRUE, name |-> SubSeq(a, j, ne), value |-> SubSeq(a, ne + 3, q - 1),
           end |-> q]
     ELSE NoAttr

\* attrRegex.exec(attrString): the leftmost match at a position >= j
AttrExecFrom(a, j) ==
  LET hits == {k \in j..Len(a) : AttrMatchAt(a, k).ok}
  IN IF hits = {} THEN NoAttr ELSE AttrMatchAt(a, Min(hits))

\* attrs[key] = value on an object kept as a sequence of pairs
SetAttr(attrs, key, value) ==
  IF \E i \in DOMAIN attrs : attrs[i][1] = key
  THEN [i \in DOMAIN attrs |-> IF attrs[i][1] = key THEN <<key, value>> ELSE attrs[i]]
  ELSE Append(attrs, <<key, value>>)

RECURSIVE ParseAttrsFrom(_, _, _)
\* the while loop of lines 55-57, from position j with the object built so far
ParseAttrsFrom(a, j, attrs) ==
  LET m == AttrExecFrom(a, j)
  IN IF ~m.ok THEN attrs
     ELSE ParseAttrsFrom(a, m.end + 1, SetAttr(attrs, m.name, m.value))

ParseAttrs(attrString) == ParseAttrsFrom(attrString, 1, <<>>)

(***************************************************************************)
(* htmlToNodes: the tree builder (utils.ts 12-18, 24-91).                   *)
(* A builder is the pair of the local variables stack and nodes; the       *)
(* variable current of the code always aliases the children of the top     *)
(* frame, or nodes when the stack is empty (lines 18, 37, 70).             *)
(***************************************************************************)
T_br == <<"b", "r">>
T_hr == <<"h", "r">>
T_img == <<"i", "m", "g">>
T_p == <<"p">>

\* ['br', 'hr', 'img']
VoidTags == {T_br, T_hr, T_img}

IsText(n) == "text" \in DOMAIN n
HasAttrs(n) == "attrs" \in DOMAIN n
HasChildren(n) == "children" \in DOMAIN n

TextLeaf(s) == [text |-> s]

\* const element = { tag }; attrs and children are set only when not empty
MakeElement(tag, attrs, children) ==
  IF Len(attrs) > 0 /\ Len(children) > 0
    THEN [tag |-> tag, attrs |-> attrs, children |-> children]
  ELSE IF Len(attrs) > 0 THEN [tag |-> tag, attrs |-> attrs]
  ELSE IF Len(children) > 0 THEN [tag |-> tag, children |-> children]
  ELSE [tag |-> tag]

EmptyBuilder == [stack |-> <<>>, nodes |-> <<>>]

\* a push that puts the node in front of its siblings
PushCurrentInFront(b, n) ==
  IF Len(b.stack) > 0
  THEN [b EXCEPT !.stack[Len(b.stack)].children = <<n>> \o @]
  ELSE [b EXCEPT !.nodes = <<n>> \o @]

\* current.push(n)
PushCurrent(b, n) ==
  IF Len(b.stack) > 0
  THEN [b EXCEPT !.stack[Len(b.stack)].children = Append(@, n)]
  ELSE [b EXCEPT !.nodes = Append(@, n)]

\* stack.pop() and the push of the finalized element on the new current
PopFrame(b) ==
  LET completed == b.stack[Len(b.stack)]
      popped == [b EXCEPT !.stack = SubSeq(b.stack, 1, Len(b.stack) - 1)]
  IN PushCurrent(popped, MakeElement(completed.tag, completed.attrs, completed.children))

\* if (text) { const trimmedText = text; if (trimmedText) current.push(trimmedText) }
OnText(b, text) == IF Len(text) > 0 THEN PushCurrent(b, TextLeaf(text)) ELSE b

\* a closing-tag branch that pops the frame and forgets the finalized element
OnCloseForgetting(b) ==
  IF Len(b.stack) > 0
  THEN [b EXCEPT !.stack = SubSeq(b.stack, 1, Len(b.stack) - 1)]
  ELSE b

\* the closing-tag branch: nothing happens on an empty stack
OnClose(b) == IF Len(b.stack) > 0 THEN PopFrame(b) ELSE b

\* ['br', 'hr', 'img'].includes(tag) || attrString.includes('/')
IsSelfClosing(tag, attrString) == tag \in VoidTags \/ Includes(attrString, "/")

\* lines 59-71: the element goes to current when self-closing, to the stack otherwise
OpenElement(b, tag, attrs, attrString) ==
  IF IsSelfClosing(tag, attrString)
  THEN PushCurrent(b, MakeElement(tag, attrs, <<>>))
  ELSE [b EXCEPT !.stack = Append(@, [tag |-> tag, attrs |-> attrs, children |-> <<>>])]

\* the opening-tag branch
OnOpen(b, tagName, attrString) ==
  OpenElement(b, toLowerCase(tagName), ParseAttrs(attrString), attrString)

\* the body of the scanning loop for one match
OnMatch(b, m) ==
  IF m.kind = "text" THEN OnText(b, m.text)
  ELSE IF m.closing THEN OnClose(b)
  ELSE OnOpen(b, m.tagName, m.attrString)

RECURSIVE ScanLoop(_, _, _)
\* while ((match = tagRegex.exec(html)) !== null) { ... }
ScanLoop(s, li, b) ==
  LET m == tagRegexExec(s, li)
  IN IF m.kind = "none" THEN b ELSE ScanLoop(s, m.end, OnMatch(b, m))

RECURSIVE UnclosedLoop(_)
\* while (stack.length > 0) { ... }
UnclosedLoop(b) == IF Len(b.stack) > 0 THEN UnclosedLoop(PopFrame(b)) ELSE b

htmlToNodes(s) == UnclosedLoop(ScanLoop(s, 0, EmptyBuilder)).nodes

(***************************************************************************)
(* Serializers (utils.ts 266-274, 359-398).                                *)
(***************************************************************************)
RECURSIVE JoinWith(_, _)
\* Array.prototype.join
JoinWith(ss, sep) ==
  IF ss = <<>> THEN <<>>
  ELSE IF Len(ss) = 1 THEN ss[1]
  ELSE ss[1] \o sep \o JoinWith(Tail(ss), sep)

\* ' ' + Object.entries(attrs).map(([key, value]) => `${key}="${value}"`).join(' ')
AttrsToHtml(node) ==
  IF HasAttrs(node)
  THEN <<" ">> \o JoinWith([i \in DOMAIN node.attrs |->
                              node.attrs[i][1] \o <<"=", DQ>> \o node.attrs[i][2] \o <<DQ>>],
                           <<" ">>)
  ELSE <<>>

RECURSIVE nodesToHtml(_)
RECURSIVE nodeElementToHtml(_)
\* a serializer that gives every element, void or not, an open tag, its children
\* and a close tag
nodeElementToHtmlNeverVoid(node) ==
  <<"<">> \o node.tag \o AttrsToHtml(node) \o <<">">>
  \o (IF HasChildren(node) THEN nodesToHtml(node.children) ELSE <<>>)
  \o <<"<", "/">> \o node.tag \o <<">">>

nodeElementToHtml(node) ==
  IF node.tag \in VoidTags
  THEN <<"<">> \o node.tag \o AttrsToHtml(node) \o <<"/", ">">>
  ELSE <<"<">> \o node.tag \o AttrsToHtml(node) \o <<">">>
       \o (IF HasChildren(node) THEN nodesToHtml(node.children) ELSE <<>>)
       \o <<"<", "/">> \o node.tag \o <<">">>

nodesToHtml(ns) ==
  IF ns = <<>> THEN <<>>
  ELSE (IF IsText(ns[1]) THEN ns[1].text ELSE nodeElementToHtml(ns[1]))
       \o nodesToHtml(Tail(ns))

RECURSIVE nodesToJson(_)
RECURSIVE NodeToJson(_)
\* the callback of nodes.map in nodesToJson
NodeToJson(node) ==
  IF IsText(node) THEN node
  ELSE MakeElement(node.tag,
                   IF HasAttrs(node) /\ Len(node.attrs) > 0 THEN node.attrs ELSE <<>>,
                   IF HasChildren(node) /\ Len(node.children) > 0
                   THEN nodesToJson(node.children) ELSE <<>>)

nodesToJson(ns) == [i \in DOMAIN ns |-> NodeToJson(ns[i])]

(***************************************************************************)
(* markdownToHtml (utils.ts 101-226): the regular expressions.             *)
(* A match is [ok, end, g1, g2]: whether the pattern matches at the        *)
(* position, the position of its last character, and its capture groups.   *)
(***************************************************************************)
Fail == [ok |-> FALSE, end |-> 0, g1 |-> <<>>, g2 |-> <<>>]
Hit(e, a, b) == [ok |-> TRUE, end |-> e, g1 |-> a, g2 |-> b]

\* the backquote character (the parser of TLA+ takes no backquote inside a string:
\* the character is the atom below, which is in no character class)
BT == "BACKQUOTE"
Fence == <<BT, BT, BT>>

(***************************************************************************)
(* nodesToMarkdown (utils.ts 282-351).                                     *)
(***************************************************************************)
T_ul == <<"u", "l">>
T_ol == <<"o", "l">>
T_li == <<"l", "i">>

\* node.attrs?.[key] || ''
AttrOrEmpty(node, key) ==
  IF HasAttrs(node) /\ \E i \in DOMAIN node.attrs : node.attrs[i][1] = key
  THEN node.attrs[CHOOSE i \in DOMAIN node.attrs : node.attrs[i][1] = key][2]
  ELSE <<>>

\* a list case that numbers the ordered list
ListToMarkdownNumbered(tag, children) ==
  IF tag = T_ol THEN <<NL, "1", ".", " ">> \o children ELSE <<NL>> \o children

\* case 'ul': case 'ol': return `\n${children}`
ListToMarkdown(tag, children) == <<NL>> \o children

\* a default case that drops the children with the tag
DefaultToMarkdownEmpty(children) == <<>>

\* default: return children
DefaultToMarkdown(children) == children

\* the switch of nodeElementToMarkdown; children is the Markdown of the children
TagToMarkdown(node, children) ==
  CASE node.tag = <<"h", "3">> -> <<NL, "#", " ">> \o children \o <<NL>>
    [] node.tag = <<"h", "4">> -> <<NL, "#", "#", " ">> \o children \o <<NL>>
    [] node.tag = <<"p">> -> <<NL>> \o children \o <<NL>>
    [] node.tag \in {<<"b">>, <<"s", "t", "r", "o", "n", "g">>} -> <<"*", "*">> \o children \o <<"*", "*">>
    [] node.tag \in {<<"i">>, <<"e", "m">>} -> <<"*">> \o children \o <<"*">>
    [] node.tag = <<"a">> ->
         <<"[">> \o children \o <<"]", "(">> \o AttrOrEmpty(node, <<"h", "r", "e", "f">>) \o <<")">>
    [] node.tag = T_img ->
         <<"!", "[", "i", "m", "a", "g", "e", "]", "(">> \o AttrOrEmpty(node, <<"s", "r", "c">>) \o <<")">>
    [] node.tag \in {T_ul, T_ol} -> ListToMarkdown(node.tag, children)
    [] node.tag = T_li -> <<"-", " ">> \o children \o <<NL>>
    [] node.tag \in {<<"b", "l", "o", "c", "k", "q", "u", "o", "t", "e">>, <<"a", "s", "i", "d", "e">>} -> <<NL, ">", " ">> \o children \o <<NL>>
    [] node.tag = <<"c", "o", "d", "e">> -> <<BT>> \o children \o <<BT>>
    [] node.tag = <<"p", "r", "e">> -> <<NL>> \o Fence \o <<NL>> \o children \o <<NL>> \o Fence \o <<NL>>
    [] node.tag = T_br -> <<NL>>
    [] node.tag = T_hr -> <<NL, "-", "-", "-", NL>>
    [] node.tag = <<"s">> -> <<"~", "~">> \o children \o <<"~", "~">>
    [] node.tag = <<"u">> -> <<"_", "_">> \o children \o <<"_", "_">>
    [] node.tag = <<"f", "i", "g", "u", "r", "e">> -> children
    [] node.tag = <<"f", "i", "g", "c", "a", "p", "t", "i", "o", "n">> -> <<>>
    [] node.tag \in {<<"v", "i", "d", "e", "o">>, <<"i", "f", "r", "a", "m", "e">>} ->
         <<NL, "[">> \o node.tag \o <<"]", "(">> \o AttrOrEmpty(node, <<"s", "r", "c">>) \o <<")", NL>>
    [] OTHER -> DefaultToMarkdown(children)

RECURSIVE nodesToMarkdown(_)
RECURSIVE nodeElementToMarkdown(_)
\* const children = node.children ? nodesToMarkdown(node.children) : ''
nodeElementToMarkdown(node) ==
  TagToMarkdown(node, IF HasChildren(node) THEN nodesToMarkdown(node.children) ELSE <<>>)

nodesToMarkdown(ns) ==
  IF ns = <<>> THEN <<>>
  ELSE (IF IsText(ns[1]) THEN ns[1].text ELSE nodeElementToMarkdown(ns[1]))
       \o nodesToMarkdown(Tail(ns))

\* the first position >= i where t stands in s, or 0
IndexOfStr(s, t, i) ==
  LET hits == {j \in i..Len(s) : StartsAt(s, t, j)}
  IN IF hits = {} THEN 0 ELSE Min(hits)

\* ^ with flag m
AtLineStart(s, i) == i = 1 \/ IsLineTerminator(s[i - 1])

\* the last position of the line that holds position i (i - 1 when i is past the end
\* or on a line terminator)
LineEnd(s, i) ==
  LET stops == {j \in i..Len(s) : IsLineTerminator(s[j])}
  IN IF stops = {} THEN Len(s) ELSE Min(stops) - 1

\* \s+(.+)$ from position a: \s+ is greedy and gives characters back until
\* (.+) finds a character that is no line terminator
SpaceThenRest(s, a) ==
  LET nonSpace == {j \in a..Len(s) : ~IsSpace(s[j])}
      wsEnd == IF nonSpace = {} THEN Len(s) ELSE Min(nonSpace) - 1
      starts == {t \in (a + 1)..(wsEnd + 1) : t <= Len(s) /\ ~IsLineTerminator(s[t])}
  IN IF wsEnd >= a /\ starts # {}
     THEN Hit(LineEnd(s, Max(starts)), SubSeq(s, Max(starts), LineEnd(s, Max(starts))), <<>>)
     ELSE Fail

\* ^prefix\s+(.+)$ with flag m
LinePrefixMatch(s, i, prefix) ==
  IF AtLineStart(s, i) /\ StartsAt(s, prefix, i)
  THEN SpaceThenRest(s, i + Len(prefix))
  ELSE Fail

\* /```([\s\S]*?)```/
CodeBlockMatch(s, i) ==
  LET close == IndexOfStr(s, Fence, i + 3)
  IN IF StartsAt(s, Fence, i) /\ close # 0
     THEN Hit(close + 2, SubSeq(s, i + 3, close - 1), <<>>)
     ELSE Fail

\* /`([^`]+)`/
InlineCodeMatch(s, i) ==
  LET q == IndexOfChar(s, BT, i + 1)
  IN IF s[i] = BT /\ q >= i + 2 THEN Hit(q, SubSeq(s, i + 1, q - 1), <<>>) ELSE Fail

\* /^---+$/ with flag m
RuleMatch(s, i) ==
  LET others == {j \in i..Len(s) : s[j] # "-"}
      e == IF others = {} THEN Len(s) ELSE Min(others) - 1
  IN IF AtLineStart(s, i) /\ e >= i + 2 /\ (e = Len(s) \/ IsLineTerminator(s[e + 1]))
     THEN Hit(e, <<>>, <<>>)
     ELSE Fail

\* \[(text)\]\(([^)]+)\) with the bracket at position lb; the text may be empty
\* (image) or not (link)
BracketParen(s, lb, emptyOk) ==
  LET rb == IndexOfChar(s, "]", lb + 1)
      rp == IndexOfChar(s, ")", rb + 2)
  IN IF /\ lb <= Len(s)
        /\ s[lb] = "["
        /\ rb # 0
        /\ (emptyOk \/ rb >= lb + 2)
        /\ rb + 1 <= Len(s)
        /\ s[rb + 1] = "("
        /\ rp >= rb + 3
     THEN Hit(rp, SubSeq(s, lb + 1, rb - 1), SubSeq(s, rb + 2, rp - 1))
     ELSE Fail

\* /!\[([^\]]*)\]\(([^)]+)\)/
ImageMatch(s, i) == IF s[i] = "!" THEN BracketParen(s, i + 1, TRUE) ELSE Fail

\* /\[([^\]]+)\]\(([^)]+)\)/
LinkMatch(s, i) == BracketParen(s, i, FALSE)

\* /\*\*([^*]+)\*\*/ and /__([^_]+)__/ for the delimiter d
BoldMatch(s, i, d) ==
  LET q == IndexOfChar(s, d, i + 2)
  IN IF StartsAt(s, <<d, d>>, i) /\ q >= i + 3 /\ StartsAt(s, <<d, d>>, q)
     THEN Hit(q + 1, SubSeq(s, i + 2, q - 1), <<>>)
     ELSE Fail

\* an italic pattern without the lookarounds: /\*([^*]+)\*/ and /_([^_]+)_/
ItalicMatchUnguarded(s, i, d) ==
  IF s[i] = d /\ IndexOfChar(s, d, i + 1) >= i + 2
  THEN Hit(IndexOfChar(s, d, i + 1), SubSeq(s, i + 1, IndexOfChar(s, d, i + 1) - 1), <<>>)
  ELSE Fail

\* /(?<!\w)\*([^*]+)\*(?!\w)/ and /(?<!\w)_([^_]+)_(?!\w)/ for the delimiter d
ItalicMatch(s, i, d) ==
  LET q == IndexOfChar(s, d, i + 1)
  IN IF /\ s[i] = d
        /\ (i = 1 \/ ~IsWord(s[i - 1]))
        /\ q >= i + 2
        /\ (q = Len(s) \/ ~IsWord(s[q + 1]))
     THEN Hit(q, SubSeq(s, i + 1, q - 1), <<>>)
     ELSE Fail

\* the last position of the maximal run of digits that starts at i (i - 1 when empty)
DigitsEnd(s, i) ==
  LET stops == {j \in i..Len(s) : ~IsDigit(s[j])}
  IN IF stops = {} THEN Len(s) ELSE Min(stops) - 1

\* /__CODEBLOCK_(\d+)__/ and /__INLINECODE_(\d+)__/ for the given opening
PlaceholderMatch(s, i, open) ==
  LET a == i + Len(open)
      e == DigitsEnd(s, a)
  IN IF StartsAt(s, open, i) /\ e >= a /\ StartsAt(s, <<"_", "_">>, e + 1)
     THEN Hit(e + 2, SubSeq(s, a, e), <<>>)
     ELSE Fail

\* line.match(/^[-*]\s+(.+)$/) on one line
UlMatch(line) ==
  IF Len(line) >= 1 /\ line[1] \in {"-", "*"} THEN SpaceThenRest(line, 2) ELSE Fail

\* line.match(/^\d+\.\s+(.+)$/) on one line
OlMatch(line) ==
  LET e == DigitsEnd(line, 1)
  IN IF e >= 1 /\ e + 1 <= Len(line) /\ line[e + 1] = "."
     THEN SpaceThenRest(line, e + 2)
     ELSE Fail

(***************************************************************************)
(* markdownToHtml: the passes.  String.prototype.replace with flag g       *)
(* rewrites the leftmost match, then goes on after it.                     *)
(***************************************************************************)
RECURSIVE ToDigits(_)
\* the decimal digits of a number, as in a template literal
ToDigits(n) ==
  IF n < 10 THEN <<Digits[n + 1]>> ELSE ToDigits(n \div 10) \o <<Digits[(n % 10) + 1]>>

DigitValue(c) == (CHOOSE i \in DOMAIN Digits : Digits[i] = c) - 1

RECURSIVE ParseIntFrom(_, _)
ParseIntFrom(ds, acc) ==
  IF ds = <<>> THEN acc ELSE ParseIntFrom(Tail(ds), 10 * acc + DigitValue(Head(ds)))

\* parseInt on a run of digits
parseInt(ds) == ParseIntFrom(ds, 0)

\* String.prototype.trim
Trim(s) ==
  LET keep == {j \in DOMAIN s : ~IsSpace(s[j])}
  IN IF keep = {} THEN <<>> ELSE SubSeq(s, Min(keep), Max(keep))

S_codeblock == <<"_", "_", "C", "O", "D", "E", "B", "L", "O", "C", "K", "_">>
S_inlinecode == <<"_", "_", "I", "N", "L", "I", "N", "E", "C", "O", "D", "E", "_">>
S_undefined == <<"u", "n", "d", "e", "f", "i", "n", "e", "d">>

OpenTag(name) == <<"<">> \o name \o <<">">>
CloseTag(name) == <<"<", "/">> \o name \o <<">">>
Wrap(name, inner) == OpenTag(name) \o inner \o CloseTag(name)

\* the match of a pattern at a position
MatchAt(p, s, i) ==
  CASE p = "codeBlock" -> CodeBlockMatch(s, i)
    [] p = "inlineCode" -> InlineCodeMatch(s, i)
    [] p = "h4a" -> LinePrefixMatch(s, i, <<"#", "#", "#", "#">>)
    [] p = "h4b" -> LinePrefixMatch(s, i, <<"#", "#", "#">>)
    [] p = "h4c" -> LinePrefixMatch(s, i, <<"#", "#">>)
    [] p = "h3" -> LinePrefixMatch(s, i, <<"#">>)
    [] p = "hr" -> RuleMatch(s, i)
    [] p = "image" -> ImageMatch(s, i)
    [] p = "link" -> LinkMatch(s, i)
    [] p = "boldStar" -> BoldMatch(s, i, "*")
    [] p = "boldUnderscore" -> BoldMatch(s, i, "_")
    [] p = "italicStar" -> ItalicMatch(s, i, "*")
    [] p = "italicUnderscore" -> ItalicMatch(s, i, "_")
    [] p = "blockquote" -> LinePrefixMatch(s, i, <<">">>)
    [] p = "restoreCodeBlock" -> PlaceholderMatch(s, i, S_codeblock)
    [] p = "restoreInlineCode" -> PlaceholderMatch(s, i, S_inlinecode)

\* the side table after the callback of a match (only the two extraction passes push)
TableAfter(p, m, table) ==
  CASE p = "codeBlock" -> Append(table, Trim(m.g1))
    [] p = "inlineCode" -> Append(table, m.g1)
    [] OTHER -> table

\* table[index] inside a template literal
TableEntry(table, index) ==
  IF index + 1 <= Len(table) THEN table[index + 1] ELSE S_undefined

\* the replacement of a match; table is the side table after the callback
Replacement(p, m, table) ==
  CASE p = "codeBlock" -> S_codeblock \o ToDigits(Len(table) - 1) \o <<"_", "_">>
    [] p = "inlineCode" -> S_inlinecode \o ToDigits(Len(table) - 1) \o <<"_", "_">>
    [] p \in {"h4a", "h4b", "h4c"} -> Wrap(<<"h", "4">>, m.g1)
    [] p = "h3" -> Wrap(<<"h", "3">>, m.g1)
    [] p = "hr" -> <<"<", "h", "r", "/", ">">>
    [] p = "image" -> OpenTag(<<"f", "i", "g", "u", "r", "e">>)
                      \o <<"<", "i", "m", "g", " ", "s", "r", "c", "=", DQ>> \o m.g2
                      \o <<DQ, "/", ">">>
                      \o Wrap(<<"f", "i", "g", "c", "a", "p", "t", "i", "o", "n">>, m.g1)
                      \o CloseTag(<<"f", "i", "g", "u", "r", "e">>)
    [] p = "link" -> <<"<", "a", " ", "h", "r", "e", "f", "=", DQ>> \o m.g2 \o <<DQ, ">">>
                     \o m.g1 \o CloseTag(<<"a">>)
    [] p \in {"boldStar", "boldUnderscore"} -> Wrap(<<"b">>, m.g1)
    [] p \in {"italicStar", "italicUnderscore"} -> Wrap(<<"i">>, m.g1)
    [] p = "blockquote" ->
         Wrap(<<"b", "l", "o", "c", "k", "q", "u", "o", "t", "e">>, m.g1)
    [] p = "restoreCodeBlock" -> Wrap(<<"p", "r", "e">>, TableEntry(table, parseInt(m.g1)))
    [] p = "restoreInlineCode" ->
         Wrap(<<"c", "o", "d", "e">>, TableEntry(table, parseInt(m.g1)))

\* the text before a match, the replacement of the match, and the rest of the replace
ReplaceJoin(before, replacement, rest) ==
  [text |-> before \o replacement \o rest.text, table |-> rest.table]

\* the leftmost of the matches found, as [start, m]; start is 0 when there is none
Leftmost(found) ==
  IF found = {} THEN [start |-> 0, m |-> Fail]
  ELSE CHOOSE c \in found : \A d \in found : c.start <= d.start

\* the leftmost match of the pattern at a position >= i
FirstMatch(p, s, i) ==
  Leftmost({c \in {[start |-> j, m |-> MatchAt(p, s, j)] : j \in i..Len(s)} : c.m.ok})

RECURSIVE ReplaceFrom(_, _, _, _)
\* the match f is replaced (t is the side table after its callback) and the replace
\* goes on after it
ReplaceMatch(p, s, i, f, t) ==
  ReplaceJoin(SubSeq(s, i, f.start - 1), Replacement(p, f.m, t),
              ReplaceFrom(p, s, f.m.end + 1, t))

\* the replace from position i, f being the leftmost match from there
ReplaceAfter(p, s, i, table, f) ==
  IF f.start = 0 THEN [text |-> SubSeq(s, i, Len(s)), table |-> table]
  ELSE ReplaceMatch(p, s, i, f, TableAfter(p, f.m, table))

\* html.replace(pattern, ...) from position i: [text, table]
ReplaceFrom(p, s, i, table) == ReplaceAfter(p, s, i, table, FirstMatch(p, s, i))

\* a replace that reads a side table or none (no pattern matches in the empty string)
Replace(p, s, table) == IF Len(s) = 0 THEN s ELSE ReplaceFrom(p, s, 1, table).text

\* lines 105-109 and 111-115: [text, table]
ExtractCodeBlocks(s) == ReplaceFrom("codeBlock", s, 1, <<>>)
ExtractInlineCodes(s) == ReplaceFrom("inlineCode", s, 1, <<>>)

\* a heading pass that knows the one-hash rule only
ConvertHeadersFirstLevelOnly(s) == Replace("h3", s, <<>>)

\* lines 118-121
ConvertHeaders(s) ==
  Replace("h3", Replace("h4c", Replace("h4b", Replace("h4a", s, <<>>), <<>>), <<>>), <<>>)

\* line 124
ConvertRules(s) == Replace("hr", s, <<>>)
\* line 127
ConvertImages(s) == Replace("image", s, <<>>)
\* line 130
ConvertLinks(s) == Replace("link", s, <<>>)
\* lines 133-134
ConvertBold(s) == Replace("boldUnderscore", Replace("boldStar", s, <<>>), <<>>)
\* lines 137-138
ConvertItalic(s) == Replace("italicUnderscore", Replace("italicStar", s, <<>>), <<>>)
\* line 141
ConvertBlockquotes(s) == Replace("blockquote", s, <<>>)

\* the k-th smallest element of a set of numbers
Nth(P, k) == CHOOSE j \in P : Cardinality({x \in P : x < j}) = k - 1

\* the pieces of s between the separators, the k-th of which starts at position
\* Nth(starts, k) and ends at sepEnd[that position]
Pieces(s, starts, sepEnd) ==
  LET n == Cardinality(starts)
      from(k) == IF k = 1 THEN 1 ELSE sepEnd[Nth(starts, k - 1)] + 1
      to(k) == IF k = n + 1 THEN Len(s) ELSE Nth(starts, k) - 1
  IN [k \in 1..(n + 1) |-> SubSeq(s, from(k), to(k))]

\* String.prototype.split on one character
Split(s, c) == Pieces(s, {j \in DOMAIN s : s[j] = c}, [j \in DOMAIN s |-> j])

ListItem(text) == Wrap(<<"l", "i">>, text)

RECURSIVE ListLoop(_, _, _, _, _)
\* the for loop of lines 149-164 (kind "ul") and 176-191 (kind "ol") from line i,
\* then the flush of lines 165-167 and 192-194: processedLines
ListLoop(kind, lines, i, items, processed) ==
  LET inList == Len(items) > 0
      flushed == Append(processed, Wrap(<<IF kind = "ul" THEN "u" ELSE "o", "l">>,
                                        Concat(items)))
  IN IF i > Len(lines) THEN (IF inList THEN flushed ELSE processed)
     ELSE LET m == IF kind = "ul" THEN UlMatch(lines[i]) ELSE OlMatch(lines[i])
          IN IF m.ok
             THEN ListLoop(kind, lines, i + 1, Append(items, ListItem(m.g1)), processed)
             ELSE ListLoop(kind, lines, i + 1, <<>>,
                           Append(IF inList THEN flushed ELSE processed, lines[i]))

\* lines 144-168
ConvertUnorderedLists(s) ==
  IF Len(s) = 0 THEN s ELSE JoinWith(ListLoop("ul", Split(s, NL), 1, <<>>, <<>>), <<NL>>)
\* lines 171-195
ConvertOrderedLists(s) ==
  IF Len(s) = 0 THEN s ELSE JoinWith(ListLoop("ol", Split(s, NL), 1, <<>>, <<>>), <<NL>>)

\* lines 198-200 and 203-205
RestoreCodeBlocks(s, table) == Replace("restoreCodeBlock", s, table)
RestoreInlineCodes(s, table) == Replace("restoreInlineCode", s, table)

\* the last position of the maximal run of newlines that starts at i
NewlinesEnd(s, i) ==
  LET others == {j \in i..Len(s) : s[j] # NL}
  IN IF others = {} THEN Len(s) ELSE Min(others) - 1

\* html.split(/\n\n+/): the separators are the maximal runs of two or more newlines
SplitParagraphs(s) ==
  Pieces(s,
         {j \in DOMAIN s : /\ s[j] = NL
                           /\ (j = 1 \/ s[j - 1] # NL)
                           /\ NewlinesEnd(s, j) >= j + 1},
         [j \in DOMAIN s |-> NewlinesEnd(s, j)])

\* a callback that wraps every chunk that is not empty
WrapParagraphAlways(para) ==
  IF Len(Trim(para)) = 0 THEN <<>> ELSE Wrap(<<"p">>, Trim(para))

\* the callback of paragraphs.map
WrapParagraph(para) ==
  LET trimmed == Trim(para)
  IN IF Len(trimmed) > 0 /\ trimmed[1] = "<" /\ trimmed[Len(trimmed)] = ">" THEN trimmed
     ELSE IF Len(trimmed) = 0 THEN <<>>
     ELSE Wrap(<<"p">>, trimmed)

\* lines 208-223
ConvertParagraphs(s) ==
  LET mapped == [i \in DOMAIN SplitParagraphs(s) |-> WrapParagraph(SplitParagraphs(s)[i])]
  IN IF Len(s) = 0 THEN s ELSE JoinWith(SelectSeq(mapped, LAMBDA x : Len(x) > 0), <<NL>>)

\* the passes that run between the extraction of the code and its restoration
RewriteMarkdown(s) ==
  ConvertOrderedLists(ConvertUnorderedLists(ConvertBlockquotes(ConvertItalic(
    ConvertBold(ConvertLinks(ConvertImages(ConvertRules(ConvertHeaders(s)))))))))

markdownToHtml(markdown) ==
  LET blocks == ExtractCodeBlocks(markdown)
      inlines == ExtractInlineCodes(blocks.text)
  IN ConvertParagraphs(RestoreInlineCodes(
       RestoreCodeBlocks(RewriteMarkdown(inlines.text), blocks.table), inlines.table))

(***************************************************************************)
(* JSON.parse (called at utils.ts 242) on the strings of the model: no     *)
(* backslash escapes, white space as in IsJsonSpace.  The result is        *)
(* [ok, value, next]: ok is FALSE where JSON.parse throws a SyntaxError,   *)
(* next is the position after the value.  Values: [arr |-> items],         *)
(* [obj |-> pairs], [text |-> chars] (a string), [num |-> n],              *)
(* [numlit |-> chars] (a number that is no plain natural), [lit |-> name]. *)
(***************************************************************************)
IsJsonSpace(c) == c \in {" ", TAB, NL}

JsonError == [ok |-> FALSE, value |-> <<>>, next |-> 0]
JsonOk(v, n) == [ok |-> TRUE, value |-> v, next |-> n]

\* the first position >= i that holds no white space (Len(s) + 1 when there is none)
SkipSpace(s, i) ==
  LET stops == {j \in i..Len(s) : ~IsJsonSpace(s[j])}
  IN IF stops = {} THEN Len(s) + 1 ELSE Min(stops)

\* a string literal whose opening quote is at i
JsonString(s, i) ==
  LET q == IndexOfChar(s, DQ, i + 1)
  IN IF q = 0 \/ \E j \in (i + 1)..(q - 1) : s[j] \in {NL, TAB, "\\"}
     THEN JsonError
     ELSE JsonOk([text |-> SubSeq(s, i + 1, q - 1)], q + 1)

\* a number literal at i: -?(0|[1-9]\d*)(\.\d+)?([eE][+-]?\d+)?
JsonNumber(s, i) ==
  LET a == IF s[i] = "-" THEN i + 1 ELSE i
      ie == IF a <= Len(s) /\ s[a] = "0" THEN a ELSE DigitsEnd(s, a)
      hasFrac == ie + 1 <= Len(s) /\ s[ie + 1] = "."
      fe == IF hasFrac THEN DigitsEnd(s, ie + 2) ELSE ie
      hasExp == fe + 1 <= Len(s) /\ s[fe + 1] \in {"e", "E"}
      es == IF fe + 2 <= Len(s) /\ s[fe + 2] \in {"+", "-"} THEN fe + 3 ELSE fe + 2
      ee == IF hasExp THEN DigitsEnd(s, es) ELSE fe
  IN IF ie < a \/ (hasFrac /\ fe < ie + 2) \/ (hasExp /\ ee < es) THEN JsonError
     ELSE IF a = i /\ ee = ie THEN JsonOk([num |-> parseInt(SubSeq(s, i, ie))], ie + 1)
     ELSE JsonOk([numlit |-> SubSeq(s, i, ee)], ee + 1)

\* one of the literals true, false, null at i
JsonLiteral(s, i) ==
  IF StartsAt(s, <<"t", "r", "u", "e">>, i) THEN JsonOk([lit |-> "true"], i + 4)
  ELSE IF StartsAt(s, <<"f", "a", "l", "s", "e">>, i) THEN JsonOk([lit |-> "false"], i + 5)
  ELSE IF StartsAt(s, <<"n", "u", "l", "l">>, i) THEN JsonOk([lit |-> "null"], i + 4)
  ELSE JsonError

RECURSIVE JsonValue(_, _)
RECURSIVE JsonElements(_, _, _)
RECURSIVE JsonMembers(_, _, _)

\* the elements of an array after the element v, items read before it
JsonElementsAfter(s, v, items) ==
  LET n == SkipSpace(s, v.next)
  IN IF ~v.ok \/ n > Len(s) THEN JsonError
     ELSE IF s[n] = "]" THEN JsonOk([arr |-> Append(items, v.value)], n + 1)
     ELSE IF s[n] = "," THEN JsonElements(s, n + 1, Append(items, v.value))
     ELSE JsonError

\* the elements of an array from position i (after "[" or ","), items read so far
JsonElements(s, i, items) == JsonElementsAfter(s, JsonValue(s, i), items)

\* the members of an object after the member key: v, pairs read before it
JsonMembersAfter(s, key, v, pairs) ==
  LET n == SkipSpace(s, v.next)
  IN IF ~v.ok \/ n > Len(s) THEN JsonError
     ELSE IF s[n] = "}" THEN JsonOk([obj |-> SetAttr(pairs, key.value.text, v.value)], n + 1)
     ELSE IF s[n] = "," THEN JsonMembers(s, n + 1, SetAttr(pairs, key.value.text, v.value))
     ELSE JsonError

\* the key of a member from position i, then the position of what follows it
JsonKey(s, i) ==
  IF SkipSpace(s, i) <= Len(s) /\ s[SkipSpace(s, i)] = DQ
  THEN JsonString(s, SkipSpace(s, i))
  ELSE JsonError

\* the members of an object from position i (after "{" or ","), pairs read so far
JsonMembers(s, i, pairs) ==
  IF /\ JsonKey(s, i).ok
     /\ SkipSpace(s, JsonKey(s, i).next) <= Len(s)
     /\ s[SkipSpace(s, JsonKey(s, i).next)] = ":"
  THEN JsonMembersAfter(s, JsonKey(s, i),
                        JsonValue(s, SkipSpace(s, JsonKey(s, i).next) + 1), pairs)
  ELSE JsonError

\* a value that starts at the first position >= i holding no white space
JsonValue(s, i) ==
  LET a == SkipSpace(s, i)
  IN IF a > Len(s) THEN JsonError
     ELSE IF s[a] = "[" THEN
            (IF SkipSpace(s, a + 1) <= Len(s) /\ s[SkipSpace(s, a + 1)] = "]"
             THEN JsonOk([arr |-> <<>>], SkipSpace(s, a + 1) + 1)
             ELSE JsonElements(s, a + 1, <<>>))
     ELSE IF s[a] = "{" THEN
            (IF SkipSpace(s, a + 1) <= Len(s) /\ s[SkipSpace(s, a + 1)] = "}"
             THEN JsonOk([obj |-> <<>>], SkipSpace(s, a + 1) + 1)
             ELSE JsonMembers(s, a + 1, <<>>))
     ELSE IF s[a] = DQ THEN JsonString(s, a)
     ELSE IF s[a] = "-" \/ IsDigit(s[a]) THEN JsonNumber(s, a)
     ELSE JsonLiteral(s, a)

\* the value v read from s must be followed by white space only
JsonWhole(s, v) == IF v.ok /\ SkipSpace(s, v.next) > Len(s) THEN v ELSE JsonError

\* JSON.parse(s)
JSONparse(s) == JsonWhole(s, JsonValue(s, 1))

\* Array.isArray on a parsed value
IsArrayValue(v) == "arr" \in DOMAIN v

(***************************************************************************)
(* parseContent (utils.ts 235-258).  The argument content is               *)
(* [kind |-> "str", str |-> chars, arr |-> <<>>] or                        *)
(* [kind |-> "arr", str |-> <<>>, arr |-> tree].                           *)
(***************************************************************************)
StrArg(s) == [kind |-> "str", str |-> s, arr |-> <<>>]
ArrArg(t) == [kind |-> "arr", str |-> <<>>, arr |-> t]

\* what "for (const node of nodes)" visits: the elements of an array, the characters
\* of a string (each one a string)
ForOfItems(content) ==
  IF content.kind = "arr" THEN content.arr
  ELSE [i \in DOMAIN content.str |-> TextLeaf(<<content.str[i]>>)]

\* a try block that never returns the parsed value
SniffNeverReturns(parsed) == [outcome |-> "continue", value |-> <<>>]

\* a try block without its catch: the SyntaxError of JSON.parse leaves parseContent
SniffWithoutCatch(parsed) ==
  IF ~parsed.ok THEN [outcome |-> "throw", value |-> <<>>]
  ELSE IF IsArrayValue(parsed.value) THEN [outcome |-> "return", value |-> parsed.value.arr]
  ELSE [outcome |-> "continue", value |-> <<>>]

\* the try block of lines 241-248: "return" with the parsed array, or "continue"
\* after a value that is no array or after the SyntaxError that the catch swallows
SniffOutcome(parsed) ==
  IF ~parsed.ok THEN [outcome |-> "continue", value |-> <<>>]
  ELSE IF IsArrayValue(parsed.value) THEN [outcome |-> "return", value |-> parsed.value.arr]
  ELSE [outcome |-> "continue", value |-> <<>>]

\* const parsed = JSON.parse(content) inside the try block
SniffJson(s) == SniffOutcome(JSONparse(s))

\* lines 251-254
HtmlContent(s, format) == IF format = "markdown" THEN markdownToHtml(s) ELSE s

parseContent(content, format) ==
  IF content.kind = "arr" THEN content.arr
  ELSE IF SniffJson(content.str).outcome = "return" THEN SniffJson(content.str).value
  ELSE htmlToNodes(HtmlContent(content.str, format))

(***************************************************************************)
(* parseHtmlToNodes (templates.ts 349-419), the parser of the markup that  *)
(* the templates generate: the loop of htmlToNodes with the same regular   *)
(* expressions, close branch (367-380), open branch (381-400) and final    *)
(* loop (404-416); only the text branch differs, it trims the run.         *)
(***************************************************************************)
\* a text branch that pushes the run untrimmed
OnTextUntrimmed(b, text) == IF Len(text) > 0 THEN PushCurrent(b, TextLeaf(text)) ELSE b

\* a text branch that trims the run and pushes it even when nothing is left
OnTextTrimmedKeepingEmpty(b, text) ==
  IF Len(text) > 0 THEN PushCurrent(b, TextLeaf(Trim(text))) ELSE b

\* const trimmed = text.trim(); if (trimmed) current.push(trimmed)
OnTextTrimmed(b, text) ==
  IF Len(Trim(text)) > 0 THEN PushCurrent(b, TextLeaf(Trim(text))) ELSE b

\* the body of the scanning loop for one match
TemplateOnMatch(b, m) ==
  IF m.kind = "text" THEN OnTextTrimmed(b, m.text)
  ELSE IF m.closing THEN OnClose(b)
  ELSE OnOpen(b, m.tagName, m.attrString)

RECURSIVE TemplateScanLoop(_, _, _)
TemplateScanLoop(s, li, b) ==
  IF tagRegexExec(s, li).kind = "none" THEN b
  ELSE TemplateScanLoop(s, tagRegexExec(s, li).end, TemplateOnMatch(b, tagRegexExec(s, li)))

parseHtmlToNodes(s) == UnclosedLoop(TemplateScanLoop(s, 0, EmptyBuilder)).nodes

(***************************************************************************)
(* Telegraph.apiRequest (client.ts 417-451).  A parameter value is         *)
(* [undefined |-> TRUE], [null |-> TRUE], a string [text |-> chars], a     *)
(* number [num |-> n] or an array [arr |-> items] of such values.  The     *)
(* environment of a call is what fetch does: it rejects, or it resolves    *)
(* with a status and a body.                                               *)
(***************************************************************************)
NoRequest == [sent |-> FALSE]

RECURSIVE JSONstringify(_)
\* JSON.stringify of a value made of arrays, strings and numbers
JSONstringify(v) ==
  IF "arr" \in DOMAIN v
  THEN <<"[">> \o JoinWith([i \in DOMAIN v.arr |-> JSONstringify(v.arr[i])], <<",">>) \o <<"]">>
  ELSE IF "text" \in DOMAIN v THEN <<DQ>> \o v.text \o <<DQ>>
  ELSE ToDigits(v.num)

\* String(value) of a string, a boolean or a number
StringOf(v) ==
  IF "text" \in DOMAIN v THEN v.text
  ELSE IF "bool" \in DOMAIN v
  THEN (IF v.bool THEN <<"t", "r", "u", "e">> ELSE <<"f", "a", "l", "s", "e">>)
  ELSE ToDigits(v.num)

\* value !== undefined && value !== null
IsGiven(v) == "undefined" \notin DOMAIN v /\ "null" \notin DOMAIN v

\* Array.isArray(value) ? JSON.stringify(value) : String(value)
FilteredValue(v) == IF "arr" \in DOMAIN v THEN JSONstringify(v) ELSE StringOf(v)

FilterEntries(given) == [i \in DOMAIN given |-> <<given[i][1], FilteredValue(given[i][2])>>]

\* lines 421-430: the entries that are given, in their order
FilterParams(params) == FilterEntries(SelectSeq(params, LAMBDA e : IsGiven(e[2])))

\* response.ok: the status is in the range 200-299
ResponseOk(status) == status >= 200 /\ status <= 299

\* throw new TelegraphError(message)
TelegraphError(message) == [kind |-> "TelegraphError", value |-> message]

\* data.error || 'Unknown Telegraph API error'
ErrorMessage(data) ==
  IF "error" \in DOMAIN data /\ Len(data.error) > 0
  THEN [template |-> "${data.error}", error |-> data.error]
  ELSE [template |-> "Unknown Telegraph API error"]

(***************************************************************************)
(* The templates (templates.ts 41-250) and createFromTemplate (320-340).   *)
(* The argument data is a record that gives every field of the template a  *)
(* value: [undefined |-> TRUE], [null |-> TRUE], [text |-> chars],         *)
(* [num |-> n], [arr |-> items] or [obj |-> record of values].             *)
(***************************************************************************)
T_h3 == <<"h", "3">>
T_h4 == <<"h", "4">>
T_pre == <<"p", "r", "e">>
T_strong == <<"s", "t", "r", "o", "n", "g">>
S_null == <<"n", "u", "l", "l">>
S_objectObject == <<"[", "o", "b", "j", "e", "c", "t", " ", "O", "b", "j", "e", "c", "t", "]">>
Undefined == [undefined |-> TRUE]

Field(name, required, type) == [name |-> name, required |-> required, type |-> type]

\* the property fields of the five templates (43-48, 75-81, 118-122, 149-156, 202-208)
blogPostFields ==
  <<Field("title", TRUE, "string"), Field("intro", TRUE, "string"),
    Field("sections", TRUE, "string[]"), Field("conclusion", FALSE, "string")>>

documentationFields ==
  <<Field("title", TRUE, "string"), Field("overview", TRUE, "string"),
    Field("installation", FALSE, "string"), Field("usage", FALSE, "string"),
    Field("api_reference", FALSE, "string[]")>>

articleFields ==
  <<Field("title", TRUE, "string"), Field("subtitle", FALSE, "string"),
    Field("body", TRUE, "string[]")>>

changelogFields ==
  <<Field("title", TRUE, "string"), Field("version", TRUE, "string"),
    Field("date", TRUE, "string"), Field("added", FALSE, "string[]"),
    Field("changed", FALSE, "string[]"), Field("fixed", FALSE, "string[]")>>

tutorialFields ==
  <<Field("title", TRUE, "string"), Field("description", TRUE, "string"),
    Field("prerequisites", FALSE, "string[]"), Field("steps", TRUE, "string[]"),
    Field("conclusion", FALSE, "string")>>

\* export const templates = { blog_post: ..., ... }: the own properties of the object
templates ==
  [blog_post |-> [name |-> "blog_post", fields |-> blogPostFields],
   documentation |-> [name |-> "documentation", fields |-> documentationFields],
   article |-> [name |-> "article", fields |-> articleFields],
   changelog |-> [name |-> "changelog", fields |-> changelogFields],
   tutorial |-> [name |-> "tutorial", fields |-> tutorialFields]]

\* templates is an object literal: a lookup by name also finds what the
\* object inherits from Object.prototype
ObjectPrototypeKeys ==
  {"constructor", "toString", "toLocaleString", "valueOf", "hasOwnProperty",
   "isPrototypeOf", "propertyIsEnumerable", "__proto__"}

\* templates[templateName] (321): a template, an inherited value that has no
\* property fields, or undefined
TemplateLookup(templateName) ==
  IF templateName \in DOMAIN templates
  THEN [kind |-> "template", fields |-> templates[templateName].fields]
  ELSE IF templateName \in ObjectPrototypeKeys
  THEN [kind |-> "inherited", fields |-> <<>>]
  ELSE [kind |-> "undefined", fields |-> <<>>]

\* `${value}` of a value that is no array
InterpolateScalar(v) ==
  IF "undefined" \in DOMAIN v THEN S_undefined
  ELSE IF "null" \in DOMAIN v THEN S_null
  ELSE IF "text" \in DOMAIN v THEN v.text
  ELSE IF "num" \in DOMAIN v THEN ToDigits(v.num)
  ELSE S_objectObject

\* `${value}`: an array is joined with commas
Interpolate(v) ==
  IF "arr" \in DOMAIN v
  THEN JoinWith([i \in DOMAIN v.arr |-> InterpolateScalar(v.arr[i])], <<",">>)
  ELSE InterpolateScalar(v)

\* value.key where value is an item of an array
Prop(v, key) ==
  IF "obj" \in DOMAIN v /\ key \in DOMAIN v.obj THEN v.obj[key] ELSE Undefined

\* if (value)
Truthy(v) ==
  IF "text" \in DOMAIN v THEN Len(v.text) > 0
  ELSE IF "num" \in DOMAIN v THEN v.num # 0
  ELSE "arr" \in DOMAIN v \/ "obj" \in DOMAIN v

\* value.length, 0 standing for undefined as well (undefined > 0 and 0 < undefined are false)
LengthOf(v) ==
  IF "text" \in DOMAIN v THEN Len(v.text)
  ELSE IF "arr" \in DOMAIN v THEN Len(v.arr)
  ELSE 0

\* value && value.length > 0
HasItems(v) == Truthy(v) /\ LengthOf(v) > 0

\* for (const item of value) throws a TypeError unless value is iterable
Iterable(v) == "text" \in DOMAIN v \/ "arr" \in DOMAIN v

\* the items of the loop: the items of an array, the characters of a string
Iterated(v) ==
  IF "arr" \in DOMAIN v THEN v.arr
  ELSE [i \in DOMAIN v.text |-> [text |-> <<v.text[i]>>]]

\* `<tag>${...}</tag>`
Tagged(tag, inner) == <<"<">> \o tag \o <<">">> \o inner \o <<"<", "/">> \o tag \o <<">">>

Generated(markup) == [ok |-> TRUE, html |-> markup]
GenerateThrows == [ok |-> FALSE, html |-> <<>>]

\* `<h4>Conclusion</h4>\n<p>${conclusion}</p>\n` (63, 235)
ConclusionHtml(conclusion) ==
  Tagged(T_h4, <<"C", "o", "n", "c", "l", "u", "s", "i", "o", "n">>) \o <<NL>> \o Tagged(T_p, Interpolate(conclusion)) \o <<NL>>

\* `<h4>${section.heading}</h4>\n<p>${section.content}</p>\n` (59)
SectionHtml(section) ==
  Tagged(T_h4, Interpolate(Prop(section, "heading"))) \o <<NL>>
  \o Tagged(T_p, Interpolate(Prop(section, "content"))) \o <<NL>>

\* blogPostTemplate.generate (49-67)
generateBlogPost(data) ==
  IF ~Iterable(data.sections) THEN GenerateThrows
  ELSE Generated(
         Tagged(T_h3, Interpolate(data.title)) \o <<NL>>
         \o Tagged(T_p, Interpolate(data.intro)) \o <<NL>>
         \o Concat([i \in DOMAIN Iterated(data.sections) |-> SectionHtml(Iterated(data.sections)[i])])
         \o (IF Truthy(data.conclusion) THEN ConclusionHtml(data.conclusion) ELSE <<>>))

\* `<li>${item}</li>\n` once per item, then `</ul>\n` (100-103, 168-171, ...)
ListHtml(items) ==
  Concat([i \in DOMAIN Iterated(items) |-> Tagged(T_li, Interpolate(Iterated(items)[i])) \o <<NL>>])
  \o <<"<", "/", "u", "l", ">", NL>>

\* documentationTemplate.generate (83-109)
generateDocumentation(data) ==
  Generated(
    Tagged(T_h3, Interpolate(data.title)) \o <<NL>>
    \o Tagged(T_h4, <<"O", "v", "e", "r", "v", "i", "e", "w">>) \o <<NL>>
    \o Tagged(T_p, Interpolate(data.overview)) \o <<NL>>
    \o (IF Truthy(data.installation)
        THEN Tagged(T_h4, <<"I", "n", "s", "t", "a", "l", "l", "a", "t", "i", "o", "n">>) \o <<NL>>
             \o Tagged(T_pre, Interpolate(data.installation)) \o <<NL>>
        ELSE <<>>)
    \o (IF Truthy(data.usage)
        THEN Tagged(T_h4, <<"U", "s", "a", "g", "e">>) \o <<NL>>
             \o Tagged(T_p, Interpolate(data.usage)) \o <<NL>>
        ELSE <<>>)
    \o (IF HasItems(data.api_reference)
        THEN Tagged(T_h4, <<"A", "P", "I", " ", "R", "e", "f", "e", "r", "e", "n", "c", "e">>) \o <<NL, "<", "u", "l", ">", NL>> \o ListHtml(data.api_reference)
        ELSE <<>>))

\* articleTemplate.generate (124-140)
generateArticle(data) ==
  IF ~Iterable(data.body) THEN GenerateThrows
  ELSE Generated(
         Tagged(T_h3, Interpolate(data.title)) \o <<NL>>
         \o (IF Truthy(data.subtitle)
             THEN Tagged(T_h4, Interpolate(data.subtitle)) \o <<NL>>
             ELSE <<>>)
         \o Concat([i \in DOMAIN Iterated(data.body) |->
                      Tagged(T_p, Interpolate(Iterated(data.body)[i])) \o <<NL>>]))

\* `<p><strong>${label}</strong></p>\n<ul>\n` and the list (167-172, 175-180, 183-188)
ChangesHtml(label, items) ==
  IF HasItems(items)
  THEN Tagged(T_p, Tagged(T_strong, label)) \o <<NL, "<", "u", "l", ">", NL>> \o ListHtml(items)
  ELSE <<>>

\* changelogTemplate.generate (158-193)
generateChangelog(data) ==
  Generated(
    Tagged(T_h3, Interpolate(data.title)) \o <<NL>>
    \o Tagged(T_h4, <<"V", "e", "r", "s", "i", "o", "n", " ">> \o Interpolate(data.version) \o <<" ", "-", " ">> \o Interpolate(data.date))
    \o <<NL>>
    \o ChangesHtml(<<"A", "d", "d", "e", "d", ":">>, data.added)
    \o ChangesHtml(<<"C", "h", "a", "n", "g", "e", "d", ":">>, data.changed)
    \o ChangesHtml(<<"F", "i", "x", "e", "d", ":">>, data.fixed))

\* steps[i] of an array or of a string
ItemAt(v, i) == IF "arr" \in DOMAIN v THEN v.arr[i] ELSE [text |-> <<v.text[i]>>]

\* `<p><strong>Step ${i + 1}: ${step.title}</strong></p>\n<p>${step.content}</p>\n` (231)
StepHtml(number, step) ==
  Tagged(T_p, Tagged(T_strong, <<"S", "t", "e", "p", " ">> \o ToDigits(number) \o <<":", " ">>
                               \o Interpolate(Prop(step, "title")))) \o <<NL>>
  \o Tagged(T_p, Interpolate(Prop(step, "content"))) \o <<NL>>

\* tutorialTemplate.generate (210-238)
generateTutorial(data) ==
  Generated(
    Tagged(T_h3, Interpolate(data.title)) \o <<NL>>
    \o Tagged(T_p, Interpolate(data.description)) \o <<NL>>
    \o (IF HasItems(data.prerequisites)
        THEN Tagged(T_h4, <<"P", "r", "e", "r", "e", "q", "u", "i", "s", "i", "t", "e", "s">>) \o <<NL, "<", "u", "l", ">", NL>> \o ListHtml(data.prerequisites)
        ELSE <<>>)
    \o Tagged(T_h4, <<"S", "t", "e", "p", "s">>) \o <<NL>>
    \o Concat([i \in 1..LengthOf(data.steps) |-> StepHtml(i, ItemAt(data.steps, i))])
    \o (IF Truthy(data.conclusion) THEN ConclusionHtml(data.conclusion) ELSE <<>>))

\* template.generate(data) (338)
Generate(templateName, data) ==
  IF templateName = "blog_post" THEN generateBlogPost(data)
  ELSE IF templateName = "documentation" THEN generateDocumentation(data)
  ELSE IF templateName = "article" THEN generateArticle(data)
  ELSE IF templateName = "changelog" THEN generateChangelog(data)
  ELSE generateTutorial(data)

\* field.required && (data[field.name] === undefined || data[field.name] === null) (331)
IsMissing(field, data) == field.required /\ ~IsGiven(data[field.name])

\* the positions of the fields at which the loop of lines 330-334 would throw
MissingFields(fields, data) == {i \in DOMAIN fields : IsMissing(fields[i], data)}

\* the field at which the loop throws: the first one in the order of the declaration
FirstMissing(fields, data) ==
  fields[CHOOSE i \in MissingFields(fields, data) :
           \A j \in MissingFields(fields, data) : i <= j].name

\* new Error(message)
Error(message) == [kind |-> "Error", value |-> message]

\* the TypeError of a for...of loop over a value that is not iterable
TypeError == [kind |-> "TypeError", value |-> <<>>]

(***************************************************************************)
(* backupAccount (export.ts 122-179).  The environment of a call is what   *)
(* the API answers: to getPageList a failure or a list of paths and a      *)
(* total, and to the k-th getPage a failure or a page with a content.      *)
(* A content is an argument of a serializer (ArrArg, StrArg, UndefinedArg) *)
(* or ObjectArg, a value that is truthy and not iterable.                  *)
(***************************************************************************)
ObjectArg == [kind |-> "object", arr |-> <<>>, str |-> <<>>]

\* params.format || 'markdown' (127)
FormatOrDefault(format) == IF format = "undefined" THEN "markdown" ELSE format

\* Math.min(params.limit || 200, 200) (128, 135)
LimitOf(limit) ==
  IF "num" \in DOMAIN limit /\ limit.num # 0 /\ limit.num < 200 THEN limit.num ELSE 200

\* what apiRequest hands to fetch (client.ts 418-438)
Fetched(method, params) ==
  [sent |-> TRUE, url |-> <<"https://api.telegra.ph", method>>,
   method |-> "POST", params |-> FilterParams(params)]

\* telegraph.getPageList({ accessToken, offset: 0, limit }) (export.ts 132-136, client.ts 663-669)
GetPageListRequest(params) ==
  Fetched("getPageList", << <<"access_token", [text |-> params.accessToken]>>,
                            <<"offset", [num |-> 0]>>,
                            <<"limit", [num |-> LimitOf(params.limit)]>> >>)

\* telegraph.getPage({ path, returnContent: true }) (export.ts 144-147, client.ts 637-642)
GetPageRequest(path) ==
  Fetched("getPage", << <<"path", [text |-> path]>>, <<"return_content", [bool |-> TRUE]>> >>)

\* !page.content (149)
NoContent(content) == content.kind = "undefined" \/ (content.kind = "str" /\ content.str = <<>>)

\* the for...of loop of the serializer throws on a value that is not iterable
ConvertThrows(content) == content.kind \notin {"arr", "str"}

\* lines 154-159
ConvertContent(format, content) ==
  IF format = "markdown" THEN nodesToMarkdown(ForOfItems(content))
  ELSE nodesToHtml(ForOfItems(content))

\* the object pushed at lines 161-166
ExportedPage(page, format) ==
  [title |-> page.title, path |-> page.path, url |-> page.url,
   content |-> ConvertContent(format, page.content)]

\* the page that the API returns for a path of the list
PageOf(path, content) ==
  [title |-> <<"T">> \o path, path |-> path, url |-> <<"h", ":">> \o path, content |-> content]

\* the answer to the getPage of the current iteration
PageAnswer == arg.env.pages[pageIndex + 1]

\* the page of the current iteration
FetchedPage == PageOf(pageList.pages[pageIndex + 1].path, PageAnswer.content)

\* the value returned at lines 173-178
AccountBackup(list, format, pages) ==
  [total_count |-> list.total_count, exported_count |-> Len(pages),
   format |-> format, pages |-> pages]

(***************************************************************************)
(* The inputs of the model: strings made of at most Max...Chunks pieces,   *)
(* and a fixed set of trees.                                               *)
(***************************************************************************)
MaxHtmlChunks == 3
MaxMdChunks == 3
MaxContentChunks == 3

\* pieces of markup: tags, a link whose attribute holds a slash, text, a stray "<"
HtmlChunks ==
  { <<"<", "p", ">">>,
    <<"<", "/", "p", ">">>,
    <<"<", "a", " ", "h", "=", DQ, "/", DQ, ">", "x", "<", "/", "a", ">">>,
    <<"<", "b", "r", ">">>,
    <<"x">>,
    <<"<">>,
    <<"<", "B", " ", "i", "=", SQ, "1", SQ, ">">>,
    <<"<", "/", "b", ">">> }

\* pieces of Markdown: a fence, a heading, hashes that deepen it, a code span, white
\* space, a blank line, a bullet, bold, a link
MdChunks ==
  { <<BT, BT, BT>>,
    <<"#", " ", "t">>,
    <<"#">>,
    <<"#", "#">>,
    <<NL, NL>>,
    <<BT, "*", "c", "*", BT>>,
    <<NL>>,
    <<" ">>,
    <<"-", " ", "i">>,
    <<"*", "*", "b", "*", "*">>,
    <<"[", "l", "]", "(", "u", ")">> }

\* pieces of the strings given to parseContent: JSON, markup and Markdown
ContentChunks ==
  { <<"[", "1", ",", "2", ",", "3", "]">>,
    <<"[">>,
    <<"]">>,
    <<"<", "i", ">">>,
    <<DQ, "s", DQ>>,
    <<" ">>,
    <<"<", "p", ">", "x", "<", "/", "p", ">">>,
    <<"#", " ", "t">> }

\* the strings made of at most max pieces of chunks
StringsOf(chunks, max) ==
  UNION {{Concat(cs) : cs \in [1..n -> chunks]} : n \in 0..max}

HtmlInputs == StringsOf(HtmlChunks, MaxHtmlChunks)
MdInputs == StringsOf(MdChunks, MaxMdChunks)
ContentInputs == StringsOf(ContentChunks, MaxContentChunks)

OneAttr == <<<<<<"s">>, <<"1">>>>>>

\* nodes without children, or with an empty children array
LeafNodes ==
  { TextLeaf(<<"x">>), [tag |-> T_p], [tag |-> T_br], [tag |-> T_br, attrs |-> OneAttr],
    [tag |-> T_p, attrs |-> <<>>, children |-> <<>>] }

\* nodes of depth at most two; an element of any tag may carry children
TreeNodes ==
  LeafNodes \cup {[tag |-> t, children |-> <<n>>] : t \in {T_p, T_br}, n \in LeafNodes}

TreeInputs == {<<>>} \cup {<<n>> : n \in TreeNodes} \cup {<<n, m>> : n, m \in TreeNodes}

Formats == {"html", "markdown"}

\* the longest list of children and of top nodes in the trees given to nodesToMarkdown
MaxItems == 2

T_span == <<"s", "p", "a", "n">>

\* the sequences of at most max elements of S
SeqsOf(S, max) == UNION {[1..n -> S] : n \in 0..max}

MdLeaves == {TextLeaf(<<"x">>), [tag |-> T_br]}

\* list items, bold, a tag the Markdown table does not know, a link
MdInner ==
  {[tag |-> t, children |-> <<n>>] : t \in {T_li, <<"b">>, T_span}, n \in MdLeaves}
    \cup { [tag |-> T_li], [tag |-> T_span],
           [tag |-> <<"a">>, attrs |-> <<<<<<"h", "r", "e", "f">>, <<"/", "u">>>>>>,
            children |-> <<TextLeaf(<<"l">>)>>] }

\* lists and unknown elements around them
MdOuter ==
  {[tag |-> t, children |-> c] : t \in {T_ul, T_ol, T_span}, c \in SeqsOf(MdInner, MaxItems)}

MarkdownTrees == SeqsOf(MdLeaves \cup MdInner, MaxItems) \cup {<<n>> : n \in MdOuter}

\* the longest parameter object given to apiRequest
MaxParams == 2

ParamKeys == <<"access_token", "title", "content">>

ParamValues ==
  { [undefined |-> TRUE], [null |-> TRUE], [text |-> <<"s">>], [num |-> 12],
    [arr |-> <<[text |-> <<"p">>], [arr |-> <<[num |-> 7]>>]>>] }

\* parameter objects: the first keys of ParamKeys, each with a value
ParamsInputs ==
  UNION {{[i \in 1..n |-> <<ParamKeys[i], vs[i]>>] : vs \in [1..n -> ParamValues]} :
           n \in 0..MaxParams}

ApiMethods == {"createAccount", "getPage"}

\* what the body of a response holds: no JSON, the JSON null, an error with or
\* without a message, a result
ResponseBodies ==
  { [parses |-> FALSE],
    [parses |-> TRUE, data |-> [null |-> TRUE]],
    [parses |-> TRUE, data |-> [ok |-> FALSE, error |-> <<"E">>]],
    [parses |-> TRUE, data |-> [ok |-> FALSE]],
    [parses |-> TRUE, data |-> [ok |-> TRUE, result |-> [text |-> <<"r">>]]] }

\* what fetch does: the promise rejects (no network), or resolves with a response
FetchOutcomes ==
  {[rejects |-> TRUE]}
    \cup {[rejects |-> FALSE, status |-> st, body |-> b] : st \in {200, 404}, b \in ResponseBodies}

\* the longest markup given to the parser of the templates, in pieces
MaxTemplateChunks == 3

\* pieces of generated markup: tags, text with white space around it, a void tag
TemplateChunks ==
  { <<"<", "p", ">">>,
    <<"<", "/", "p", ">">>,
    <<" ">>,
    <<NL, " ", "x", " ">>,
    <<"x">>,
    <<"<", "b", "r", "/", ">">>,
    <<"<", "a", " ", "h", "=", DQ, "u", DQ, ">">> }

TemplateInputs == StringsOf(TemplateChunks, MaxTemplateChunks)

\* the number of calls in a sequence of calls
MaxCalls == 3

\* the calls of a sequence: each conversion function on a few inputs
SessionCalls ==
  {[fn |-> "htmlToNodes", arg |-> [content |-> StrArg(s), format |-> "html"]] :
     s \in {<<"<", "p", ">", "x">>, <<"x", "<", "/", "p", ">">>, <<"<", "B", " ", "i", "=", SQ, "1", SQ, ">">>}}
  \cup
  {[fn |-> "markdownToHtml", arg |-> [content |-> StrArg(s), format |-> "markdown"]] :
     s \in {<<BT, "*", "c", "*", BT>>, <<"#", " ", "t">>, <<BT, BT, BT, "x", BT, BT, BT>>}}
  \cup
  {[fn |-> "parseContent", arg |-> [content |-> StrArg(s), format |-> f]] :
     s \in {<<"#", " ", "t">>, <<"[", "1", ",", "2", ",", "3", "]">>}, f \in Formats}
  \cup
  {[fn |-> "parseContent", arg |-> [content |-> ArrArg(<<[tag |-> T_br]>>), format |-> "html"]]}
  \cup
  {[fn |-> f, arg |-> [content |-> ArrArg(<<[tag |-> T_p, children |-> <<TextLeaf(<<"x">>)>>]>>),
                       format |-> "html"]] :
     f \in {"nodesToJson", "nodesToHtml", "nodesToMarkdown"}}

\* the number of lines of the longest Markdown text made of lines
MaxLines == 3

\* lines of Markdown: a bullet with each prefix, a numbered line, plain text, an
\* empty line
ListLines ==
  { <<"-", " ", "a">>,
    <<"*", " ", "b">>,
    <<"1", ".", " ", "c">>,
    <<"x">>,
    <<>> }

\* the texts made of at most MaxLines lines
ListInputs == {<<>>} \cup {JoinWith(ls, <<NL>>) : ls \in SeqsOf(ListLines, MaxLines) \ {<<>>}}

\* the longest Markdown text made of pieces of image and link syntax
MaxLinkChunks == 3

\* pieces of image and link syntax: an image, a link, a bang, text, an image whose
\* address goes on, a closing parenthesis, an opening bracket, the end of a link
LinkChunks ==
  { <<"!", "[", "a", "]", "(", "s", ")">>,
    <<"[", "t", "]", "(", "u", ")">>,
    <<"!">>,
    <<"x">>,
    <<"!", "[", "a", "]", "(">>,
    <<")">>,
    <<"[">>,
    <<"]", "(", "u", ")">> }

LinkInputs == StringsOf(LinkChunks, MaxLinkChunks)

\* the longest Markdown text made of pieces of emphasis
MaxEmphasisChunks == 3

S_snake == <<"a", "_", "b", "_", "c">>

\* the delimiter d, n times, around the text t
Delimited(d, n, t) == [k \in 1..n |-> d] \o t \o [k \in 1..n |-> d]

\* pieces of emphasis: bold and italic with each delimiter, a word with underscores
\* inside, a letter, a space
EmphasisChunks ==
  {Delimited(d, n, <<"t">>) : d \in {"*", "_"}, n \in {1, 2}} \cup {S_snake, <<"x">>, <<" ">>}

EmphasisInputs == StringsOf(EmphasisChunks, MaxEmphasisChunks)

\* the arguments of createFromTemplate: every value for the fields of the
\* smallest template, a well-typed value or none for the fields of the others,
\* and names that are no template
FieldValues ==
  {Undefined, [null |-> TRUE], [text |-> <<"v">>], [text |-> <<"<", "b", ">">>], [num |-> 7],
   [arr |-> <<[text |-> <<"i">>]>>],
   [arr |-> <<[obj |-> [heading |-> [text |-> <<"h">>], title |-> [text |-> <<"t">>],
                        content |-> [text |-> <<"c">>]]]>>]}

WellTyped(field) ==
  IF field.type = "string" THEN [text |-> <<"v">>]
  ELSE IF field.name \in {"sections", "steps"}
  THEN [arr |-> <<[obj |-> [heading |-> [text |-> <<"h">>], title |-> [text |-> <<"t">>],
                            content |-> [text |-> <<"c">>]]]>>]
  ELSE [arr |-> <<[text |-> <<"i">>]>>]

FieldNames(fields) == {fields[i].name : i \in DOMAIN fields}
FieldNamed(fields, name) == fields[CHOOSE i \in DOMAIN fields : fields[i].name = name]

AnyData(fields) == [FieldNames(fields) -> FieldValues]
TypedData(fields) ==
  {d \in [FieldNames(fields) -> {Undefined} \cup {WellTyped(fields[i]) : i \in DOMAIN fields}] :
     \A n \in FieldNames(fields) : d[n] \in {Undefined, WellTyped(FieldNamed(fields, n))}}

UnregisteredNames == {"unknown", "constructor", "toString"}

CallsOf(templateName, datas) == {[name |-> templateName, data |-> d] : d \in datas}

TemplateCalls ==
  CallsOf("article", AnyData(articleFields))
  \cup CallsOf("blog_post", TypedData(blogPostFields))
  \cup CallsOf("documentation", TypedData(documentationFields))
  \cup CallsOf("changelog", TypedData(changelogFields))
  \cup CallsOf("tutorial", TypedData(tutorialFields))
  \cup {[name |-> n, data |-> [title |-> [text |-> <<"v">>]]] : n \in UnregisteredNames}

\* what a caller can hand to a serializer in place of an array: strings, undefined
UndefinedArg == [kind |-> "undefined", arr |-> <<>>, str |-> <<>>]
\* the longest page list of an account
MaxPages == 3

PagePaths == {<<"a">>, <<"b">>}

\* page.content: absent, a tree, a value that no serializer can walk
PageContents ==
  {UndefinedArg, ArrArg(<<[tag |-> T_p, children |-> <<TextLeaf(<<"x">>)>>]>>), ObjectArg}

\* what getPage does: it throws, or it returns a page
PageAnswers ==
  {[ok |-> FALSE, content |-> UndefinedArg]} \cup {[ok |-> TRUE, content |-> c] : c \in PageContents}

\* what getPageList does: it throws, or it returns the paths and the total of the account
ListAnswers ==
  {[ok |-> FALSE, total_count |-> 0, paths |-> <<>>]}
  \cup {[ok |-> TRUE, total_count |-> Len(ps) + more, paths |-> ps] :
          ps \in SeqsOf(PagePaths, MaxPages), more \in {0, 1}}

BackupEnvs ==
  UNION {{[list |-> la, pages |-> pa] : pa \in [1..Len(la.paths) -> PageAnswers]} :
           la \in ListAnswers}

BackupCalls ==
  {[accessToken |-> <<"k">>, format |-> f, limit |-> l, env |-> e] :
     f \in {"markdown", "html", "undefined"}, l \in {Undefined, [num |-> 300]},
     e \in BackupEnvs}

NonArrayArgs == {StrArg(<<>>), StrArg(<<"a", "b">>), StrArg(<<"<", "p", ">">>), UndefinedArg}

SerializerArgs == {ArrArg(t) : t \in TreeInputs \cup MarkdownTrees} \cup NonArrayArgs

(***************************************************************************)
(* The state machine.  fn is the function the caller invoked and arg its   *)
(* arguments; pc is the position inside the running function; html is the  *)
(* parameter html of htmlToNodes and the local html of markdownToHtml      *)
(* (parseContent hands the one to the other); lastIndex is                 *)
(* tagRegex.lastIndex; stack and nodes are the locals of htmlToNodes;      *)
(* codeBlocks and inlineCodes the side tables of markdownToHtml; result is *)
(* what the function returned or threw; request is what apiRequest handed  *)
(* to fetch; returned is the list of the calls that ended before this one; *)
(* pageList and exportedPages are the locals of backupAccount and          *)
(* pageIndex is the number of items its for...of loop has taken.           *)
(***************************************************************************)
NoResult == [kind |-> "none", value |-> <<>>]
NoPageList == [total_count |-> 0, pages |-> <<>>]
Returned(kind, v) == [kind |-> kind, value |-> v]

Locals ==
  /\ request = NoRequest
  /\ pageList = NoPageList
  /\ pageIndex = 0
  /\ exportedPages = <<>>
  /\ returned = <<>>
  /\ lastIndex = 0
  /\ stack = <<>>
  /\ nodes = <<>>
  /\ codeBlocks = <<>>
  /\ inlineCodes = <<>>
  /\ result = NoResult

InitHtmlToNodes ==
  /\ fn = "htmlToNodes"
  /\ \E s \in HtmlInputs : arg = [content |-> StrArg(s), format |-> "html"] /\ html = s
  /\ pc = "scan"
  /\ Locals

InitMarkdownToHtml ==
  /\ fn = "markdownToHtml"
  /\ \E s \in MdInputs : arg = [content |-> StrArg(s), format |-> "markdown"] /\ html = s
  /\ pc = "codeBlocks"
  /\ Locals

InitParseContent ==
  /\ fn = "parseContent"
  /\ \E c \in {StrArg(s) : s \in ContentInputs} \cup {ArrArg(t) : t \in TreeInputs},
        f \in Formats : arg = [content |-> c, format |-> f]
  /\ html = <<>>
  /\ pc = "parseContent"
  /\ Locals

InitNodesToJson ==
  /\ fn = "nodesToJson"
  /\ \E c \in {ArrArg(t) : t \in TreeInputs} \cup NonArrayArgs :
        arg = [content |-> c, format |-> "html"]
  /\ html = <<>>
  /\ pc = "nodesToJson"
  /\ Locals

InitNodesToHtml ==
  /\ fn = "nodesToHtml"
  /\ \E c \in SerializerArgs : arg = [content |-> c, format |-> "html"]
  /\ html = <<>>
  /\ pc = "nodesToHtml"
  /\ Locals

InitNodesToMarkdown ==
  /\ fn = "nodesToMarkdown"
  /\ \E c \in SerializerArgs : arg = [content |-> c, format |-> "html"]
  /\ html = <<>>
  /\ pc = "nodesToMarkdown"
  /\ Locals

InitApiRequest ==
  /\ fn = "apiRequest"
  /\ \E m \in ApiMethods, ps \in ParamsInputs, f \in FetchOutcomes :
        arg = [method |-> m, params |-> ps, env |-> f]
  /\ html = <<>>
  /\ pc = "apiRequest"
  /\ Locals

\* where a function starts, and the string its parameter html or its local html holds
EntryPc(f) ==
  IF f = "htmlToNodes" THEN "scan" ELSE IF f = "markdownToHtml" THEN "codeBlocks" ELSE f

EntryHtml(f, a) == IF f \in {"htmlToNodes", "markdownToHtml"} THEN a.content.str ELSE <<>>

InitSession ==
  /\ \E c \in SessionCalls :
        /\ fn = c.fn
        /\ arg = c.arg
        /\ pc = EntryPc(c.fn)
        /\ html = EntryHtml(c.fn, c.arg)
  /\ Locals

InitParseHtmlToNodes ==
  /\ fn = "parseHtmlToNodes"
  /\ \E s \in TemplateInputs : arg = [content |-> StrArg(s), format |-> "html"] /\ html = s
  /\ pc = "templateScan"
  /\ Locals

InitCreateFromTemplate ==
  /\ fn = "createFromTemplate"
  /\ arg \in TemplateCalls
  /\ html = <<>>
  /\ pc = "createFromTemplate"
  /\ Locals

InitBackupAccount ==
  /\ fn = "backupAccount"
  /\ arg \in BackupCalls
  /\ html = <<>>
  /\ pc = "backupAccount"
  /\ Locals

InitMarkdownLists ==
  /\ fn = "markdownToHtml"
  /\ \E s \in ListInputs : arg = [content |-> StrArg(s), format |-> "markdown"] /\ html = s
  /\ pc = "codeBlocks"
  /\ Locals

InitMarkdownLinks ==
  /\ fn = "markdownToHtml"
  /\ \E s \in LinkInputs : arg = [content |-> StrArg(s), format |-> "markdown"] /\ html = s
  /\ pc = "codeBlocks"
  /\ Locals

InitMarkdownEmphasis ==
  /\ fn = "markdownToHtml"
  /\ \E s \in EmphasisInputs : arg = [content |-> StrArg(s), format |-> "markdown"] /\ html = s
  /\ pc = "codeBlocks"
  /\ Locals

InitSerializers == InitNodesToJson \/ InitNodesToHtml \/ InitNodesToMarkdown

Init ==
  \/ InitHtmlToNodes
  \/ InitMarkdownToHtml
  \/ InitParseContent
  \/ InitSerializers
  \/ InitApiRequest
  \/ InitParseHtmlToNodes

\* ---- htmlToNodes ----
Builder == [stack |-> stack, nodes |-> nodes]

SetBuilder(b) == stack' = b.stack /\ nodes' = b.nodes

HtmlFrame == UNCHANGED <<request, returned, fn, arg, pageList, pageIndex, exportedPages, html, codeBlocks, inlineCodes>>

\* one iteration of the scanning loop on a text run
ScanText ==
  /\ pc = "scan"
  /\ LET m == tagRegexExec(html, lastIndex)
     IN /\ m.kind = "text"
        /\ SetBuilder(OnText(Builder, m.text))
        /\ lastIndex' = m.end
  /\ UNCHANGED <<pc, result>>
  /\ HtmlFrame

\* one iteration of the scanning loop on a closing tag
ScanClosingTag ==
  /\ pc = "scan"
  /\ LET m == tagRegexExec(html, lastIndex)
     IN /\ m.kind = "tag"
        /\ m.closing
        /\ SetBuilder(OnClose(Builder))
        /\ lastIndex' = m.end
  /\ UNCHANGED <<pc, result>>
  /\ HtmlFrame

\* one iteration of the scanning loop on an opening tag
ScanOpeningTag ==
  /\ pc = "scan"
  /\ LET m == tagRegexExec(html, lastIndex)
     IN /\ m.kind = "tag"
        /\ ~m.closing
        /\ SetBuilder(OnOpen(Builder, m.tagName, m.attrString))
        /\ lastIndex' = m.end
  /\ UNCHANGED <<pc, result>>
  /\ HtmlFrame

\* exec returns null: the scanning loop ends
ScanEnd ==
  /\ pc = "scan"
  /\ tagRegexExec(html, lastIndex).kind = "none"
  /\ pc' = "unclosed"
  /\ UNCHANGED <<lastIndex, stack, nodes, result>>
  /\ HtmlFrame

\* a final loop that pops the frame and appends it nowhere
CloseUnclosedDropping ==
  /\ pc = "unclosed"
  /\ Len(stack) > 0
  /\ stack' = SubSeq(stack, 1, Len(stack) - 1)
  /\ UNCHANGED <<pc, lastIndex, nodes, result>>
  /\ HtmlFrame

\* a final loop that reads the top frame and leaves it on the stack
CloseUnclosedKeeping ==
  /\ pc = "unclosed"
  /\ Len(stack) > 0
  /\ UNCHANGED <<pc, lastIndex, stack, nodes, result>>
  /\ HtmlFrame

\* one iteration of the loop over the unclosed tags (lines 77-89)
CloseUnclosed ==
  /\ pc = "unclosed"
  /\ Len(stack) > 0
  /\ SetBuilder(PopFrame(Builder))
  /\ UNCHANGED <<pc, lastIndex, result>>
  /\ HtmlFrame

\* return nodes (line 91), to the caller or through parseContent (line 257)
ReturnNodes ==
  /\ pc = "unclosed"
  /\ Len(stack) = 0
  /\ pc' = "done"
  /\ result' = Returned("nodes", nodes)
  /\ UNCHANGED <<lastIndex, stack, nodes>>
  /\ HtmlFrame

NextHtmlToNodes ==
  \/ ScanText
  \/ ScanClosingTag
  \/ ScanOpeningTag
  \/ ScanEnd
  \/ CloseUnclosed
  \/ ReturnNodes

\* ---- markdownToHtml ----
MdFrame == UNCHANGED <<request, returned, fn, arg, pageList, pageIndex, exportedPages, lastIndex, stack, nodes, result>>

\* a pass that rewrites html and goes on at the next pass
Pass(at, text, next) ==
  /\ pc = at
  /\ html' = text
  /\ pc' = next
  /\ UNCHANGED <<codeBlocks, inlineCodes>>
  /\ MdFrame

PassCodeBlocks ==
  /\ pc = "codeBlocks"
  /\ html' = ExtractCodeBlocks(html).text
  /\ codeBlocks' = ExtractCodeBlocks(html).table
  /\ pc' = "inlineCodes"
  /\ UNCHANGED inlineCodes
  /\ MdFrame

PassInlineCodes ==
  /\ pc = "inlineCodes"
  /\ html' = ExtractInlineCodes(html).text
  /\ inlineCodes' = ExtractInlineCodes(html).table
  /\ pc' = "headers"
  /\ UNCHANGED codeBlocks
  /\ MdFrame

PassHeaders == Pass("headers", ConvertHeaders(html), "rules")
PassRules == Pass("rules", ConvertRules(html), "images")
PassImages == Pass("images", ConvertImages(html), "links")
PassLinks == Pass("links", ConvertLinks(html), "bold")
PassBold == Pass("bold", ConvertBold(html), "italic")
PassItalic == Pass("italic", ConvertItalic(html), "blockquotes")
PassBlockquotes == Pass("blockquotes", ConvertBlockquotes(html), "unorderedLists")
PassUnorderedLists == Pass("unorderedLists", ConvertUnorderedLists(html), "orderedLists")
PassOrderedLists == Pass("orderedLists", ConvertOrderedLists(html), "restoreCodeBlocks")
PassRestoreCodeBlocks ==
  Pass("restoreCodeBlocks", RestoreCodeBlocks(html, codeBlocks), "restoreInlineCodes")
PassRestoreInlineCodes ==
  Pass("restoreInlineCodes", RestoreInlineCodes(html, inlineCodes), "paragraphs")

\* the last pass and return html (line 225): to the caller, or to parseContent,
\* which calls htmlToNodes on it (lines 253-257)
PassParagraphs ==
  /\ pc = "paragraphs"
  /\ html' = ConvertParagraphs(html)
  /\ IF fn = "markdownToHtml"
     THEN pc' = "done" /\ result' = Returned("string", html')
     ELSE pc' = "scan" /\ result' = result
  /\ UNCHANGED <<request, returned, fn, arg, pageList, pageIndex, exportedPages, lastIndex, stack, nodes, codeBlocks, inlineCodes>>

NextMarkdownToHtml ==
  \/ PassCodeBlocks
  \/ PassInlineCodes
  \/ PassHeaders
  \/ PassRules
  \/ PassImages
  \/ PassLinks
  \/ PassBold
  \/ PassItalic
  \/ PassBlockquotes
  \/ PassUnorderedLists
  \/ PassOrderedLists
  \/ PassRestoreCodeBlocks
  \/ PassRestoreInlineCodes
  \/ PassParagraphs

\* ---- parseContent ----
\* a dispatcher that serializes the array it is given and parses it again
ParseContentArrayReparsed ==
  /\ pc = "parseContent"
  /\ arg.content.kind = "arr"
  /\ pc' = "done"
  /\ result' = Returned("nodes", htmlToNodes(nodesToHtml(arg.content.arr)))
  /\ UNCHANGED <<request, returned, fn, arg, pageList, pageIndex, exportedPages, html, lastIndex, stack, nodes, codeBlocks, inlineCodes>>

\* if (Array.isArray(content)) return content
ParseContentArray ==
  /\ pc = "parseContent"
  /\ arg.content.kind = "arr"
  /\ pc' = "done"
  /\ result' = Returned("nodes", arg.content.arr)
  /\ UNCHANGED <<request, returned, fn, arg, pageList, pageIndex, exportedPages, html, lastIndex, stack, nodes, codeBlocks, inlineCodes>>

\* the JSON sniff returns the parsed array
ParseContentJson ==
  /\ pc = "parseContent"
  /\ arg.content.kind = "str"
  /\ SniffJson(arg.content.str).outcome = "return"
  /\ pc' = "done"
  /\ result' = Returned("nodes", SniffJson(arg.content.str).value)
  /\ UNCHANGED <<request, returned, fn, arg, pageList, pageIndex, exportedPages, html, lastIndex, stack, nodes, codeBlocks, inlineCodes>>

\* a dispatcher that takes every string for markup, whatever the format
ParseContentStringAsMarkup ==
  /\ pc = "parseContent"
  /\ arg.content.kind = "str"
  /\ SniffJson(arg.content.str).outcome # "return"
  /\ html' = arg.content.str
  /\ pc' = IF SniffJson(arg.content.str).outcome = "throw" THEN "thrown" ELSE "scan"
  /\ UNCHANGED <<request, returned, fn, arg, pageList, pageIndex, exportedPages, lastIndex, stack, nodes, codeBlocks, inlineCodes, result>>

\* the string goes to markdownToHtml (format markdown) or straight to htmlToNodes;
\* an exception that left the try block would end the call
ParseContentString ==
  /\ pc = "parseContent"
  /\ arg.content.kind = "str"
  /\ SniffJson(arg.content.str).outcome # "return"
  /\ html' = arg.content.str
  /\ pc' = IF SniffJson(arg.content.str).outcome = "throw" THEN "thrown"
           ELSE IF arg.format = "markdown" THEN "codeBlocks"
           ELSE "scan"
  /\ UNCHANGED <<request, returned, fn, arg, pageList, pageIndex, exportedPages, lastIndex, stack, nodes, codeBlocks, inlineCodes, result>>

NextParseContent ==
  \/ ParseContentArray
  \/ ParseContentJson
  \/ ParseContentString
  \/ NextMarkdownToHtml
  \/ NextHtmlToNodes

\* ---- the serializers ----
\* a call of a serializer built on for...of: a value that is not iterable throws
\* a TypeError at the loop head
CallForOf(name, serialized) ==
  /\ pc = name
  /\ IF arg.content.kind = "undefined"
     THEN pc' = "thrown" /\ result' = Returned("TypeError", <<>>)
     ELSE pc' = "done" /\ result' = Returned("string", serialized)
  /\ UNCHANGED <<request, returned, fn, arg, pageList, pageIndex, exportedPages, html, lastIndex, stack, nodes, codeBlocks, inlineCodes>>

\* nodes.map(...): a TypeError when nodes has no method map
CallNodesToJson ==
  /\ pc = "nodesToJson"
  /\ IF arg.content.kind # "arr"
     THEN pc' = "thrown" /\ result' = Returned("TypeError", <<>>)
     ELSE pc' = "done" /\ result' = Returned("json", nodesToJson(arg.content.arr))
  /\ UNCHANGED <<request, returned, fn, arg, pageList, pageIndex, exportedPages, html, lastIndex, stack, nodes, codeBlocks, inlineCodes>>

CallNodesToHtml == CallForOf("nodesToHtml", nodesToHtml(ForOfItems(arg.content)))

CallNodesToMarkdown == CallForOf("nodesToMarkdown", nodesToMarkdown(ForOfItems(arg.content)))

NextSerializers == CallNodesToJson \/ CallNodesToHtml \/ CallNodesToMarkdown

\* ---- Telegraph.apiRequest ----
ApiFrame == UNCHANGED <<returned, fn, arg, pageList, pageIndex, exportedPages, html, lastIndex, stack, nodes, codeBlocks, inlineCodes>>

\* the call ends with an exception
Throw(error) == pc' = "thrown" /\ result' = error

\* lines 418-438: the parameters are filtered and the request is handed to fetch
ApiSend ==
  /\ pc = "apiRequest"
  /\ request' = [sent |-> TRUE, url |-> <<"https://api.telegra.ph", arg.method>>,
                 method |-> "POST", params |-> FilterParams(arg.params)]
  /\ pc' = "fetch"
  /\ UNCHANGED result
  /\ ApiFrame

\* await fetch(...) rejects: nothing catches the TypeError of fetch
ApiFetchRejected ==
  /\ pc = "fetch"
  /\ arg.env.rejects
  /\ Throw(Returned("TypeError", [template |-> "fetch failed"]))
  /\ UNCHANGED <<request, pageList, pageIndex, exportedPages>>
  /\ ApiFrame

\* if (!response.ok) throw new TelegraphError(`HTTP error: ...`)
ApiHttpError ==
  /\ pc = "fetch"
  /\ ~arg.env.rejects
  /\ ~ResponseOk(arg.env.status)
  /\ Throw(TelegraphError([template |-> "HTTP error: ${response.status} ${response.statusText}",
                           status |-> arg.env.status]))
  /\ UNCHANGED <<request, pageList, pageIndex, exportedPages>>
  /\ ApiFrame

\* the response is ok: the body is read next
ApiResponseOk ==
  /\ pc = "fetch"
  /\ ~arg.env.rejects
  /\ ResponseOk(arg.env.status)
  /\ pc' = "json"
  /\ UNCHANGED <<request, result>>
  /\ ApiFrame

\* await response.json() rejects on a body that is no JSON: nothing catches it
ApiJsonRejected ==
  /\ pc = "json"
  /\ ~arg.env.body.parses
  /\ Throw(Returned("SyntaxError", [template |-> "Unexpected token"]))
  /\ UNCHANGED <<request, pageList, pageIndex, exportedPages>>
  /\ ApiFrame

\* data is null: reading data.ok throws a TypeError
ApiDataNull ==
  /\ pc = "json"
  /\ arg.env.body.parses
  /\ "null" \in DOMAIN arg.env.body.data
  /\ Throw(Returned("TypeError", [template |-> "Cannot read properties of null"]))
  /\ UNCHANGED <<request, pageList, pageIndex, exportedPages>>
  /\ ApiFrame

\* if (!data.ok) throw new TelegraphError(data.error || 'Unknown Telegraph API error')
ApiDataError ==
  /\ pc = "json"
  /\ arg.env.body.parses
  /\ "null" \notin DOMAIN arg.env.body.data
  /\ ~arg.env.body.data.ok
  /\ Throw(TelegraphError(ErrorMessage(arg.env.body.data)))
  /\ UNCHANGED <<request, pageList, pageIndex, exportedPages>>
  /\ ApiFrame

\* return data.result
ApiReturn ==
  /\ pc = "json"
  /\ arg.env.body.parses
  /\ "null" \notin DOMAIN arg.env.body.data
  /\ arg.env.body.data.ok
  /\ pc' = "done"
  /\ result' = Returned("result", arg.env.body.data.result)
  /\ UNCHANGED <<request, pageList, pageIndex, exportedPages>>
  /\ ApiFrame

NextApiRequest ==
  \/ ApiSend
  \/ ApiFetchRejected
  \/ ApiHttpError
  \/ ApiResponseOk
  \/ ApiJsonRejected
  \/ ApiDataNull
  \/ ApiDataError
  \/ ApiReturn

\* ---- parseHtmlToNodes ----
\* one iteration of the scanning loop on a text run (templates.ts 359-363)
TemplateScanText ==
  /\ pc = "templateScan"
  /\ tagRegexExec(html, lastIndex).kind = "text"
  /\ SetBuilder(OnTextTrimmed(Builder, tagRegexExec(html, lastIndex).text))
  /\ lastIndex' = tagRegexExec(html, lastIndex).end
  /\ UNCHANGED <<pc, result>>
  /\ HtmlFrame

\* one iteration on a closing tag (367-380)
TemplateScanClosingTag ==
  /\ pc = "templateScan"
  /\ tagRegexExec(html, lastIndex).kind = "tag"
  /\ tagRegexExec(html, lastIndex).closing
  /\ SetBuilder(OnClose(Builder))
  /\ lastIndex' = tagRegexExec(html, lastIndex).end
  /\ UNCHANGED <<pc, result>>
  /\ HtmlFrame

\* one iteration on an opening tag (381-400)
TemplateScanOpeningTag ==
  /\ pc = "templateScan"
  /\ tagRegexExec(html, lastIndex).kind = "tag"
  /\ ~tagRegexExec(html, lastIndex).closing
  /\ SetBuilder(OnOpen(Builder, tagRegexExec(html, lastIndex).tagName,
                       tagRegexExec(html, lastIndex).attrString))
  /\ lastIndex' = tagRegexExec(html, lastIndex).end
  /\ UNCHANGED <<pc, result>>
  /\ HtmlFrame

\* exec returns null
TemplateScanEnd ==
  /\ pc = "templateScan"
  /\ tagRegexExec(html, lastIndex).kind = "none"
  /\ pc' = "templateUnclosed"
  /\ UNCHANGED <<lastIndex, stack, nodes, result>>
  /\ HtmlFrame

\* one iteration of the final loop (404-416)
TemplateCloseUnclosed ==
  /\ pc = "templateUnclosed"
  /\ Len(stack) > 0
  /\ SetBuilder(PopFrame(Builder))
  /\ UNCHANGED <<pc, lastIndex, result>>
  /\ HtmlFrame

\* return nodes (418)
TemplateReturnNodes ==
  /\ pc = "templateUnclosed"
  /\ Len(stack) = 0
  /\ pc' = "done"
  /\ result' = Returned("nodes", nodes)
  /\ UNCHANGED <<lastIndex, stack, nodes>>
  /\ HtmlFrame

NextParseHtmlToNodes ==
  \/ TemplateScanText
  \/ TemplateScanClosingTag
  \/ TemplateScanOpeningTag
  \/ TemplateScanEnd
  \/ TemplateCloseUnclosed
  \/ TemplateReturnNodes

\* ---- createFromTemplate ----
CreateFrame ==
  UNCHANGED <<request, returned, fn, arg, pageList, pageIndex, exportedPages, lastIndex, stack, nodes, codeBlocks, inlineCodes>>

\* lines 321-327: templates has no property of that name
CreateNotFound ==
  /\ pc = "createFromTemplate"
  /\ TemplateLookup(arg.name).kind = "undefined"
  /\ Throw(Error(<<"Template \"", arg.name, "\" not found">>))
  /\ UNCHANGED html
  /\ CreateFrame

\* line 330 on an inherited property: template.fields is undefined, the loop throws
CreateFieldsNotIterable ==
  /\ pc = "createFromTemplate"
  /\ TemplateLookup(arg.name).kind = "inherited"
  /\ Throw(TypeError)
  /\ UNCHANGED html
  /\ CreateFrame

\* lines 330-334: the loop meets a required field without a value
CreateFieldMissing ==
  /\ pc = "createFromTemplate"
  /\ TemplateLookup(arg.name).kind = "template"
  /\ MissingFields(TemplateLookup(arg.name).fields, arg.data) # {}
  /\ Throw(Error(<<"Required field \"",
                   FirstMissing(TemplateLookup(arg.name).fields, arg.data),
                   "\" is missing">>))
  /\ UNCHANGED html
  /\ CreateFrame

\* lines 330-334: the loop ends
CreateValidated ==
  /\ pc = "createFromTemplate"
  /\ TemplateLookup(arg.name).kind = "template"
  /\ MissingFields(TemplateLookup(arg.name).fields, arg.data) = {}
  /\ pc' = "generate"
  /\ UNCHANGED <<html, result>>
  /\ CreateFrame

\* lines 338-339: generate returns the markup, parseHtmlToNodes is entered
CreateGenerate ==
  /\ pc = "generate"
  /\ Generate(arg.name, arg.data).ok
  /\ html' = Generate(arg.name, arg.data).html
  /\ pc' = "templateScan"
  /\ UNCHANGED result
  /\ CreateFrame

\* line 338: generate throws
CreateGenerateThrows ==
  /\ pc = "generate"
  /\ ~Generate(arg.name, arg.data).ok
  /\ Throw(TypeError)
  /\ UNCHANGED html
  /\ CreateFrame

NextCreateFromTemplate ==
  \/ CreateNotFound
  \/ CreateFieldsNotIterable
  \/ CreateFieldMissing
  \/ CreateValidated
  \/ CreateGenerate
  \/ CreateGenerateThrows
  \/ NextParseHtmlToNodes

\* ---- backupAccount ----
BackupFrame ==
  UNCHANGED <<returned, fn, arg, html, lastIndex, stack, nodes, codeBlocks, inlineCodes>>

\* lines 132-136: getPageList throws, nothing catches it
BackupListFails ==
  /\ pc = "backupAccount"
  /\ ~arg.env.list.ok
  /\ request' = GetPageListRequest(arg)
  /\ Throw(TelegraphError([template |-> "Unknown Telegraph API error"]))
  /\ UNCHANGED <<pageList, pageIndex, exportedPages>>
  /\ BackupFrame

\* lines 132-138: the page list is there, exportedPages is empty
BackupList ==
  /\ pc = "backupAccount"
  /\ arg.env.list.ok
  /\ request' = GetPageListRequest(arg)
  /\ pageList' = [total_count |-> arg.env.list.total_count,
                  pages |-> [i \in DOMAIN arg.env.list.paths |-> [path |-> arg.env.list.paths[i]]]]
  /\ pageIndex' = 0
  /\ exportedPages' = <<>>
  /\ pc' = "pages"
  /\ UNCHANGED result
  /\ BackupFrame

\* a loop without its try block: the exception of getPage leaves backupAccount
BackupPageFailsAborting ==
  /\ pc = "pages"
  /\ pageIndex < Len(pageList.pages)
  /\ ~PageAnswer.ok
  /\ request' = GetPageRequest(pageList.pages[pageIndex + 1].path)
  /\ Throw(TelegraphError([template |-> "Unknown Telegraph API error"]))
  /\ UNCHANGED <<pageList, pageIndex, exportedPages>>
  /\ BackupFrame

\* one iteration (141-171): getPage throws, the catch block logs it
BackupPageFails ==
  /\ pc = "pages"
  /\ pageIndex < Len(pageList.pages)
  /\ ~PageAnswer.ok
  /\ request' = GetPageRequest(pageList.pages[pageIndex + 1].path)
  /\ pageIndex' = pageIndex + 1
  /\ UNCHANGED <<pc, result, pageList, exportedPages>>
  /\ BackupFrame

\* one iteration: the page has no content (149-151)
BackupPageSkipped ==
  /\ pc = "pages"
  /\ pageIndex < Len(pageList.pages)
  /\ PageAnswer.ok
  /\ NoContent(FetchedPage.content)
  /\ request' = GetPageRequest(pageList.pages[pageIndex + 1].path)
  /\ pageIndex' = pageIndex + 1
  /\ UNCHANGED <<pc, result, pageList, exportedPages>>
  /\ BackupFrame

\* one iteration: the serializer throws (154-159), the catch block logs it
BackupConvertFails ==
  /\ pc = "pages"
  /\ pageIndex < Len(pageList.pages)
  /\ PageAnswer.ok
  /\ ~NoContent(FetchedPage.content)
  /\ ConvertThrows(FetchedPage.content)
  /\ request' = GetPageRequest(pageList.pages[pageIndex + 1].path)
  /\ pageIndex' = pageIndex + 1
  /\ UNCHANGED <<pc, result, pageList, exportedPages>>
  /\ BackupFrame

\* one iteration: the page is converted and pushed (154-166)
BackupPageExported ==
  /\ pc = "pages"
  /\ pageIndex < Len(pageList.pages)
  /\ PageAnswer.ok
  /\ ~NoContent(FetchedPage.content)
  /\ ~ConvertThrows(FetchedPage.content)
  /\ request' = GetPageRequest(pageList.pages[pageIndex + 1].path)
  /\ exportedPages' = Append(exportedPages, ExportedPage(FetchedPage, FormatOrDefault(arg.format)))
  /\ pageIndex' = pageIndex + 1
  /\ UNCHANGED <<pc, result, pageList>>
  /\ BackupFrame

\* lines 173-178
BackupReturn ==
  /\ pc = "pages"
  /\ pageIndex = Len(pageList.pages)
  /\ pc' = "done"
  /\ result' = Returned("backup", AccountBackup(pageList, FormatOrDefault(arg.format), exportedPages))
  /\ UNCHANGED <<request, pageList, pageIndex, exportedPages>>
  /\ BackupFrame

NextBackupAccount ==
  \/ BackupListFails
  \/ BackupList
  \/ BackupPageFails
  \/ BackupPageSkipped
  \/ BackupConvertFails
  \/ BackupPageExported
  \/ BackupReturn

Next == NextParseContent \/ NextSerializers \/ NextApiRequest \/ NextParseHtmlToNodes

\* ---- a sequence of calls ----
\* locals of which nodes outlives the call, as a module-level array would
SharedNodes ==
  /\ lastIndex' = 0
  /\ stack' = <<>>
  /\ nodes' = nodes
  /\ codeBlocks' = <<>>
  /\ inlineCodes' = <<>>

\* the locals of the function that is entered, as its declarations leave them
\* (utils.ts 12-18 and 102-111)
FreshLocals ==
  /\ lastIndex' = 0
  /\ stack' = <<>>
  /\ nodes' = <<>>
  /\ codeBlocks' = <<>>
  /\ inlineCodes' = <<>>

\* the call has ended (the functions are synchronous: calls do not overlap) and the
\* caller makes the next one
NewCall ==
  /\ pc \in {"done", "thrown"}
  /\ Len(returned) < MaxCalls - 1
  /\ returned' = Append(returned, [fn |-> fn, arg |-> arg, result |-> result])
  /\ \E c \in SessionCalls :
        /\ fn' = c.fn
        /\ arg' = c.arg
        /\ pc' = EntryPc(c.fn)
        /\ html' = EntryHtml(c.fn, c.arg)
  /\ FreshLocals
  /\ result' = NoResult
  /\ UNCHANGED <<request, pageList, pageIndex, exportedPages>>

NextSession == NextParseContent \/ NextSerializers \/ NewCall

\* every function on every input of the model
Spec == Init /\ [][Next]_vars

\* htmlToNodes alone
SpecHtmlToNodes == InitHtmlToNodes /\ [][NextHtmlToNodes]_vars

\* one iteration of the scanning loop of htmlToNodes, the last one included
ScanStep == ScanText \/ ScanClosingTag \/ ScanOpeningTag \/ ScanEnd

\* weak fairness of ScanStep, with its enabling condition written out: one of
\* the four branches can be taken exactly when pc = "scan"
ScanFairness == []<>(pc # "scan") \/ []<><<ScanStep>>_vars

\* htmlToNodes alone, run to its end: the function is synchronous, so each of its
\* loops goes on as long as it has an iteration to make
SpecHtmlToNodesFair ==
  /\ InitHtmlToNodes
  /\ [][NextHtmlToNodes]_vars
  /\ ScanFairness
  /\ WF_vars(CloseUnclosed)
  /\ WF_vars(ReturnNodes)

\* markdownToHtml alone
SpecMarkdownToHtml == InitMarkdownToHtml /\ [][NextMarkdownToHtml]_vars

\* parseContent alone
SpecParseContent == InitParseContent /\ [][NextParseContent]_vars

\* apiRequest against every outcome of fetch
SpecApiRequest == InitApiRequest /\ [][NextApiRequest]_vars

\* sequences of MaxCalls calls of the conversion functions
SpecSession == InitSession /\ [][NextSession]_vars

\* the two markup parsers, htmlToNodes and parseHtmlToNodes
InitParsers == InitHtmlToNodes \/ InitParseHtmlToNodes
NextParsers == NextHtmlToNodes \/ NextParseHtmlToNodes
SpecParsers == InitParsers /\ [][NextParsers]_vars

\* markdownToHtml on texts made of list lines
SpecMarkdownLists == InitMarkdownLists /\ [][NextMarkdownToHtml]_vars

\* markdownToHtml on texts made of images and links
SpecMarkdownLinks == InitMarkdownLinks /\ [][NextMarkdownToHtml]_vars

\* markdownToHtml on texts made of emphasis
SpecMarkdownEmphasis == InitMarkdownEmphasis /\ [][NextMarkdownToHtml]_vars

\* createFromTemplate and the parser it calls
SpecCreateFromTemplate == InitCreateFromTemplate /\ [][NextCreateFromTemplate]_vars

\* backupAccount
SpecBackupAccount == InitBackupAccount /\ [][NextBackupAccount]_vars

\* the three serializers
SpecSerializers == InitSerializers /\ [][NextSerializers]_vars


(***************************************************************************)
(* Properties of htmlToNodes.                                              *)
(***************************************************************************)
\* a self-close marker: the raw attribute text ends with "/" (as in <img src="x"/>)
SelfCloseMarker(attrString) ==
  Len(Trim(attrString)) > 0 /\ Trim(attrString)[Len(Trim(attrString))] = "/"

RECURSIVE WellFormedFrom(_, _, _)
\* m is the token found from offset li, open the names of the tags still open
WellFormedToken(s, li, open, m) ==
  IF m.kind = "none" THEN li = Len(s) /\ open = <<>>
  ELSE /\ m.start = li + 1
       /\ IF m.kind = "text" THEN WellFormedFrom(s, m.end, open)
          ELSE IF m.closing
            THEN /\ Len(open) > 0
                 /\ open[Len(open)] = toLowerCase(m.tagName)
                 /\ WellFormedFrom(s, m.end, SubSeq(open, 1, Len(open) - 1))
          ELSE IF toLowerCase(m.tagName) \in VoidTags \/ SelfCloseMarker(m.attrString)
            THEN WellFormedFrom(s, m.end, open)
          ELSE WellFormedFrom(s, m.end, Append(open, toLowerCase(m.tagName)))

WellFormedFrom(s, li, open) == WellFormedToken(s, li, open, tagRegexExec(s, li))

\* well-formed markup: every character belongs to a token, every open tag that
\* is neither void nor written with a self-close marker is closed by the
\* matching close tag, and the tags are properly nested
WellFormed(s) == WellFormedFrom(s, 0, <<>>)

\* C1: round trip.  When htmlToNodes has returned the tree T for a
\* well-formed markup string, htmlToNodes(nodesToHtml(T)) equals T.
C1_RoundTrip ==
  (fn = "htmlToNodes" /\ pc = "done" /\ WellFormed(arg.content.str))
    => htmlToNodes(nodesToHtml(result.value)) = result.value

\* the token that the next iteration of the scanning loop reads is an open tag that
\* is neither br, hr, img nor written with a self-close marker
PlainOpenTagNext ==
  /\ pc = "scan"
  /\ tagRegexExec(html, lastIndex).kind = "tag"
  /\ ~tagRegexExec(html, lastIndex).closing
  /\ toLowerCase(tagRegexExec(html, lastIndex).tagName) \notin VoidTags
  /\ ~SelfCloseMarker(tagRegexExec(html, lastIndex).attrString)

\* C2: nesting.  In well-formed markup, an open tag that is not br/hr/img and is
\* not written with a self-close marker is pushed on the stack, whatever its
\* attribute values are: the step that reads it adds one frame with its tag and
\* no children yet, so that the nodes up to its close tag become its children.
C2_PlainOpenTagIsPushed ==
  [][(PlainOpenTagNext /\ WellFormed(html)) =>
       /\ Len(stack') = Len(stack) + 1
       /\ stack'[Len(stack')].tag = toLowerCase(tagRegexExec(html, lastIndex).tagName)
       /\ stack'[Len(stack')].children = <<>>
       /\ nodes' = nodes]_vars

RECURSIVE CountElements(_)
\* the number of elements of a tree
CountElements(ns) ==
  IF ns = <<>> THEN 0
  ELSE (IF IsText(ns[1]) THEN 0
        ELSE 1 + (IF HasChildren(ns[1]) THEN CountElements(ns[1].children) ELSE 0))
       + CountElements(Tail(ns))

RECURSIVE OpenTagsFrom(_, _)
OpenTagsToken(s, m) ==
  IF m.kind = "none" THEN 0
  ELSE (IF m.kind = "tag" /\ ~m.closing THEN 1 ELSE 0) + OpenTagsFrom(s, m.end)

\* the number of open-tag tokens of s from offset li
OpenTagsFrom(s, li) == OpenTagsToken(s, tagRegexExec(s, li))

RECURSIVE CloseTagsFrom(_, _)
CloseTagsToken(s, m) ==
  IF m.kind = "none" THEN 0
  ELSE (IF m.kind = "tag" /\ m.closing THEN 1 ELSE 0) + CloseTagsFrom(s, m.end)

\* the number of close-tag tokens of s from offset li
CloseTagsFrom(s, li) == CloseTagsToken(s, tagRegexExec(s, li))

\* C3: stack discipline.  The tree returned by htmlToNodes holds exactly one
\* element per open-tag token of the input, void or not, closed or not.
C3_OneElementPerOpenTag ==
  (fn = "htmlToNodes" /\ pc = "done")
    => CountElements(result.value) = OpenTagsFrom(arg.content.str, 0)

\* C3 witness: htmlToNodes has returned on an input with two open tags never closed
C3_TwoUnclosedReturned ==
  /\ fn = "htmlToNodes"
  /\ pc = "done"
  /\ OpenTagsFrom(arg.content.str, 0) = 2
  /\ CloseTagsFrom(arg.content.str, 0) = 0
  /\ ~WellFormed(arg.content.str)
  /\ CountElements(result.value) = 2


\* no element with tag br, hr or img has a children field, at any depth
RECURSIVE NoVoidChildren(_)
NoVoidChildren(ns) ==
  \A i \in DOMAIN ns :
    "tag" \in DOMAIN ns[i] =>
      /\ ns[i].tag \in VoidTags => ~HasChildren(ns[i])
      /\ HasChildren(ns[i]) => NoVoidChildren(ns[i].children)

\* C4: void tags.  No element with tag img, br or hr has a children field in a
\* tree returned by htmlToNodes or parseContent, nor in a value returned by
\* nodesToJson.
C4_VoidTagsHaveNoChildren ==
  (pc = "done" /\ result.kind \in {"nodes", "json"}) => NoVoidChildren(result.value)

\* the concatenation of the text leaves of a tree, in document order
RECURSIVE TextOf(_)
TextOf(ns) ==
  IF ns = <<>> THEN <<>>
  ELSE (IF IsText(ns[1]) THEN ns[1].text
        ELSE IF HasChildren(ns[1]) THEN TextOf(ns[1].children)
        ELSE <<>>)
       \o TextOf(Tail(ns))

\* the characters of s from position i that belong to no recognized tag token
\* ("<", optional "/", a name of [\w-], anything up to the next ">"), in order
RECURSIVE OutsideTags(_, _)
OutsideTags(s, i) ==
  IF i > Len(s) THEN <<>>
  ELSE IF s[i] = "<" /\ TagMatchAt(s, i).kind = "tag"
    THEN OutsideTags(s, TagMatchAt(s, i).end + 1)
  ELSE <<s[i]>> \o OutsideTags(s, i + 1)

\* C6: malformed markup becomes text.  Every character of the input of
\* htmlToNodes that is not part of a recognized tag token appears, in input
\* order, in a text leaf of the result; a "<" that starts no tag is kept.
C6_CharactersOutsideTagsAreText ==
  (fn = "htmlToNodes" /\ pc = "done")
    => TextOf(result.value) = OutsideTags(arg.content.str, 1)

(***************************************************************************)
(* Properties of markdownToHtml.                                           *)
(***************************************************************************)
\* C5: code immunity.  The output of markdownToHtml holds <pre>content</pre>
\* for every fenced code block and <code>content</code> for every inline code
\* span that the extraction passes took out of the input, also when the input
\* has two or more code spans.
C5_CodeIsRestored ==
  (fn = "markdownToHtml" /\ pc = "done")
    => /\ \A k \in DOMAIN codeBlocks :
            IndexOfStr(result.value, Wrap(<<"p", "r", "e">>, codeBlocks[k]), 1) # 0
       /\ \A k \in DOMAIN inlineCodes :
            IndexOfStr(result.value, Wrap(<<"c", "o", "d", "e">>, inlineCodes[k]), 1) # 0


(***************************************************************************)
(* Properties of parseContent.                                             *)
(***************************************************************************)
\* the string parses as a JSON array
IsJsonArray(s) == JSONparse(s).ok /\ IsArrayValue(JSONparse(s).value)

\* no step of markdownToHtml or htmlToNodes has run
NothingConverted ==
  /\ html = <<>>
  /\ lastIndex = 0
  /\ stack = <<>>
  /\ nodes = <<>>
  /\ codeBlocks = <<>>
  /\ inlineCodes = <<>>

\* C7: dispatcher pass-through.  parseContent given a Node array returns that
\* array unchanged, whatever the format, and parses nothing.
C7_ArrayPassesThrough ==
  (fn = "parseContent" /\ arg.content.kind = "arr")
    => /\ pc \in {"parseContent", "done"}
       /\ NothingConverted
       /\ pc = "done" => result = Returned("nodes", arg.content.arr)

\* C7 witness: a two-node array declared as Markdown has been returned
C7_ArrayReturned ==
  /\ fn = "parseContent"
  /\ pc = "done"
  /\ arg.content.kind = "arr"
  /\ arg.format = "markdown"
  /\ Len(arg.content.arr) = 2
  /\ result.value = arg.content.arr

\* C8: JSON sniff.  parseContent given a string that parses as a JSON array
\* returns the parsed array for both formats ("[1,2,3]" gives [1,2,3]), and
\* neither markdownToHtml nor htmlToNodes is applied to it.
C8_JsonArrayIsReturned ==
  (fn = "parseContent" /\ arg.content.kind = "str" /\ IsJsonArray(arg.content.str))
    => /\ pc \in {"parseContent", "done"}
       /\ NothingConverted
       /\ pc = "done" =>
            result = Returned("nodes", JSONparse(arg.content.str).value.arr)
       /\ (pc = "done" /\ arg.content.str = <<"[", "1", ",", "2", ",", "3", "]">>) =>
            result.value = <<[num |-> 1], [num |-> 2], [num |-> 3]>>

\* C8 witness: "[1,2,3]" declared as Markdown has been returned as [1,2,3]
C8_JsonArrayReturned ==
  /\ fn = "parseContent"
  /\ pc = "done"
  /\ arg.format = "markdown"
  /\ arg.content.str = <<"[", "1", ",", "2", ",", "3", "]">>
  /\ result.value = <<[num |-> 1], [num |-> 2], [num |-> 3]>>

\* C9: format routing.  For a string that is no JSON array, parseContent
\* returns htmlToNodes(markdownToHtml(s)) when the format is markdown and
\* htmlToNodes(s) when it is html (the default); the result is an array.
\* (html is the string that parseContent hands to htmlToNodes.)
C9_StringIsRouted ==
  (/\ fn = "parseContent"
   /\ pc = "done"
   /\ arg.content.kind = "str"
   /\ ~IsJsonArray(arg.content.str))
    => /\ html = (IF arg.format = "markdown"
                  THEN markdownToHtml(arg.content.str)
                  ELSE arg.content.str)
       /\ result = Returned("nodes", htmlToNodes(html))

\* C9 witness: a string that is JSON but no array, declared as Markdown, has
\* been returned as the tree of its Markdown rewriting
C9_NonArrayJsonRouted ==
  /\ fn = "parseContent"
  /\ pc = "done"
  /\ arg.format = "markdown"
  /\ arg.content.kind = "str"
  /\ JSONparse(arg.content.str).ok
  /\ ~IsArrayValue(JSONparse(arg.content.str).value)
  /\ Len(result.value) > 0
  /\ html = markdownToHtml(arg.content.str)
  /\ result.value = htmlToNodes(html)

(***************************************************************************)
(* Leniency.                                                               *)
(***************************************************************************)
\* C10: leniency.  htmlToNodes, markdownToHtml and parseContent never raise,
\* however malformed the input string: no call ends with an exception, and
\* what htmlToNodes and parseContent return is a tree, what markdownToHtml
\* returns a markup string.
C10_NeverRaises ==
  fn \in {"htmlToNodes", "markdownToHtml", "parseContent"}
    => /\ pc # "thrown"
       /\ pc = "done" =>
            result.kind = (IF fn = "markdownToHtml" THEN "string" ELSE "nodes")

\* C10 witness: parseContent has returned a tree for a string that is neither
\* JSON nor well-formed markup
C10_MalformedReturned ==
  /\ fn = "parseContent"
  /\ pc = "done"
  /\ arg.content.kind = "str"
  /\ Len(arg.content.str) > 0
  /\ ~JSONparse(arg.content.str).ok
  /\ ~WellFormed(arg.content.str)
  /\ result.kind = "nodes"

(***************************************************************************)
(* Properties of the passes of markdownToHtml.                             *)
(***************************************************************************)
\* k times "#"
Hashes(k) == [i \in 1..k |-> "#"]

\* heading text of the inputs: letters and blanks, a letter first
PlainHeadingText(s) ==
  /\ Len(s) > 0
  /\ s[1] = "t"
  /\ \A i \in DOMAIN s : s[i] \in {"t", " "}

\* the level and the text of an input that is one heading line of level 1..4
HeadingLevel(s) ==
  {k \in 1..4 : /\ Len(s) > k + 1
                /\ SubSeq(s, 1, k + 1) = Hashes(k) \o <<" ">>
                /\ PlainHeadingText(SubSeq(s, k + 2, Len(s)))}

HeadingTag(k) == IF k = 1 THEN <<"h", "3">> ELSE <<"h", "4">>

\* C11: markdownToHtml turns a line of one "#", white space and text into an h3
\* element and a line of two, three or four "#" into an h4 element, and the tree
\* parsed from that markup is the one element holding the text.
C11_HeadingCollapse ==
  \A k \in HeadingLevel(arg.content.str) :
    (fn = "markdownToHtml" /\ pc = "done")
      => /\ result.value = Wrap(HeadingTag(k), SubSeq(arg.content.str, k + 2, Len(arg.content.str)))
         /\ htmlToNodes(result.value) =
              <<[tag |-> HeadingTag(k),
                 children |-> <<TextLeaf(SubSeq(arg.content.str, k + 2, Len(arg.content.str)))>>]>>

\* markdownToHtml has returned the h4 element of a heading of four hashes
C11_FourHashesCollapsed ==
  /\ fn = "markdownToHtml"
  /\ pc = "done"
  /\ arg.content.str = <<"#", "#", "#", "#", " ", "t">>
  /\ result.value = <<"<", "h", "4", ">", "t", "<", "/", "h", "4", ">">>

\* the first position from i on that holds no newline
RECURSIVE SkipNewlines(_, _)
SkipNewlines(s, i) == IF i <= Len(s) /\ s[i] = NL THEN SkipNewlines(s, i + 1) ELSE i

\* the chunks between the runs of two or more newlines, read character by character:
\* cur is the chunk being read, chunks the ones before it
RECURSIVE ChunksFrom(_, _, _, _)
ChunksFrom(s, i, cur, chunks) ==
  IF i > Len(s) THEN Append(chunks, cur)
  ELSE IF s[i] = NL /\ i < Len(s) /\ s[i + 1] = NL
       THEN ChunksFrom(s, SkipNewlines(s, i), <<>>, Append(chunks, cur))
       ELSE ChunksFrom(s, i + 1, Append(cur, s[i]), chunks)

\* a chunk without the white space around it
RECURSIVE Stripped(_)
Stripped(c) ==
  IF Len(c) = 0 THEN c
  ELSE IF c[1] \in {" ", NL, TAB} THEN Stripped(Tail(c))
  ELSE IF c[Len(c)] \in {" ", NL, TAB} THEN Stripped(SubSeq(c, 1, Len(c) - 1))
  ELSE c

\* what a stripped chunk is emitted as (nothing for an empty one)
EmittedChunk(t) ==
  IF Len(t) = 0 THEN <<>>
  ELSE IF t[1] = "<" /\ t[Len(t)] = ">" THEN t
  ELSE <<"<", "p", ">">> \o t \o <<"<", "/", "p", ">">>

\* the emitted chunks from the k-th on, a newline between two of them
RECURSIVE EmittedFrom(_, _, _)
EmittedFrom(chunks, k, out) ==
  IF k > Len(chunks) THEN out
  ELSE IF Len(Stripped(chunks[k])) = 0 THEN EmittedFrom(chunks, k + 1, out)
  ELSE EmittedFrom(chunks, k + 1,
                   (IF Len(out) = 0 THEN out ELSE out \o <<NL>>)
                     \o EmittedChunk(Stripped(chunks[k])))

\* C12: the last pass of markdownToHtml splits the rewritten text at the runs of two
\* or more newlines; a chunk whose trimmed text is not empty and does not both start
\* with "<" and end with ">" becomes <p>trimmed</p>, one that starts with "<" and
\* ends with ">" is emitted as it is, empty chunks are dropped, and the emitted
\* chunks are joined in their order by one newline.
C12_ParagraphWrapping ==
  [][pc = "paragraphs" => html' = EmittedFrom(ChunksFrom(html, 1, <<>>, <<>>), 1, <<>>)]_vars

\* the heading and the paragraph of "# t", a blank line, "#" have been returned
C12_HeadingAndParagraphReturned ==
  /\ fn = "markdownToHtml"
  /\ pc = "done"
  /\ arg.content.str = <<"#", " ", "t", NL, NL, "#">>
  /\ result.value = <<"<", "h", "3", ">", "t", "<", "/", "h", "3", ">", NL,
                      "<", "p", ">", "#", "<", "/", "p", ">">>

(***************************************************************************)
(* Properties of the serializers.                                          *)
(***************************************************************************)
\* nodesToMarkdown has been called with the array of one element
OneElementCall ==
  /\ fn = "nodesToMarkdown"
  /\ pc = "done"
  /\ arg.content.kind = "arr"
  /\ Len(arg.content.arr) = 1
  /\ ~IsText(arg.content.arr[1])

\* the children of an element, none when the field is absent
ChildrenOf(node) == IF HasChildren(node) THEN node.children ELSE <<>>

\* the same element under the other list tag
OtherList(node) == [node EXCEPT !.tag = IF node.tag = T_ul THEN T_ol ELSE T_ul]

\* one "- " line per item, in the order of the items
RECURSIVE BulletLines(_)
BulletLines(items) ==
  IF items = <<>> THEN <<>>
  ELSE <<"-", " ">> \o nodesToMarkdown(ChildrenOf(items[1])) \o <<NL>> \o BulletLines(Tail(items))

\* C13: the Markdown of an ol element and of a ul element with the same children are
\* the same string, and a list of li items is a newline followed by one "- " line
\* per item.
C13_ListOrderingLost ==
  (OneElementCall /\ arg.content.arr[1].tag \in {T_ul, T_ol})
    => /\ result.value = nodesToMarkdown(<<OtherList(arg.content.arr[1])>>)
       /\ (\A i \in DOMAIN ChildrenOf(arg.content.arr[1]) :
             ~IsText(arg.content.arr[1].children[i]) /\ arg.content.arr[1].children[i].tag = T_li)
            => result.value = <<NL>> \o BulletLines(ChildrenOf(arg.content.arr[1]))

\* the Markdown of an ordered list of two items has been returned: two bullet lines
C13_OrderedListAsBullets ==
  /\ OneElementCall
  /\ arg.content.arr[1].tag = T_ol
  /\ Len(ChildrenOf(arg.content.arr[1])) = 2
  /\ \A i \in 1..2 : arg.content.arr[1].children[i] = [tag |-> T_li, children |-> <<TextLeaf(<<"x">>)>>]
  /\ result.value = <<NL, "-", " ", "x", NL, "-", " ", "x", NL>>

\* the tags of the mapping table of nodeElementToMarkdown
KnownMarkdownTags ==
  { <<"h", "3">>, <<"h", "4">>, <<"p">>, <<"b">>, <<"s", "t", "r", "o", "n", "g">>, <<"i">>,
    <<"e", "m">>, <<"a">>, T_img, T_ul, T_ol, T_li,
    <<"b", "l", "o", "c", "k", "q", "u", "o", "t", "e">>, <<"c", "o", "d", "e">>,
    <<"p", "r", "e">>, T_br, T_hr, <<"s">>, <<"u">>, <<"f", "i", "g", "u", "r", "e">>,
    <<"f", "i", "g", "c", "a", "p", "t", "i", "o", "n">>, <<"a", "s", "i", "d", "e">>,
    <<"v", "i", "d", "e", "o">>, <<"i", "f", "r", "a", "m", "e">> }

\* the Markdown of the nodes one after the other, each serialized on its own
RECURSIVE InTreeOrder(_)
InTreeOrder(ns) ==
  IF ns = <<>> THEN <<>> ELSE nodesToMarkdown(<<ns[1]>>) \o InTreeOrder(Tail(ns))

\* C14: an element whose tag the Markdown table does not know is emitted as the
\* Markdown of its children (nothing when it has none) with nothing for the tag; a
\* text leaf is emitted as it is; the nodes are emitted in tree order.
C14_UnknownTagFallback ==
  (fn = "nodesToMarkdown" /\ pc = "done" /\ arg.content.kind = "arr")
    => /\ result.value = InTreeOrder(arg.content.arr)
       /\ (Len(arg.content.arr) = 1 /\ IsText(arg.content.arr[1]))
            => result.value = arg.content.arr[1].text
       /\ (OneElementCall /\ arg.content.arr[1].tag \notin KnownMarkdownTags)
            => result.value = nodesToMarkdown(ChildrenOf(arg.content.arr[1]))

\* the Markdown of a span that holds a link has been returned: the link alone
C14_UnknownTagDropped ==
  /\ OneElementCall
  /\ arg.content.arr[1].tag = T_span
  /\ Len(ChildrenOf(arg.content.arr[1])) = 1
  /\ arg.content.arr[1].children[1].tag = <<"a">>
  /\ result.value = <<"[", "l", "]", "(", "/", "u", ")">>

\* C16: a tree serializer (nodesToJson, nodesToHtml, nodesToMarkdown) called with a
\* value that is not an array, a plain string for one, raises an error and returns
\* no coerced result.
C16_NonArrayRaises ==
  (fn \in {"nodesToJson", "nodesToHtml", "nodesToMarkdown"} /\ arg.content.kind # "arr")
    => pc # "done"

(***************************************************************************)
(* Properties of the API client.                                           *)
(***************************************************************************)
\* C15: every failure of an API method (fetch fails, the status is not 2xx, the body
\* cannot be parsed, the response says ok = false) reaches the caller as a
\* TelegraphError and as no other error type.
C15_OnlyTelegraphError ==
  (fn = "apiRequest" /\ pc = "thrown") => result.kind = "TelegraphError"

(***************************************************************************)
(* Properties of sequences of calls.                                       *)
(***************************************************************************)
\* the calls that have ended, the running one included once it has
EndedCalls ==
  IF pc \in {"done", "thrown"}
  THEN Append(returned, [fn |-> fn, arg |-> arg, result |-> result])
  ELSE returned

\* C17: in a sequence of calls of htmlToNodes, markdownToHtml, parseContent and the
\* serializers the result of a call depends on its own arguments only: two calls of
\* the same function with equal input return equal results, whatever ran before.
C17_Stateless ==
  \A i, j \in DOMAIN EndedCalls :
    (EndedCalls[i].fn = EndedCalls[j].fn /\ EndedCalls[i].arg = EndedCalls[j].arg)
      => EndedCalls[i].result = EndedCalls[j].result

\* htmlToNodes has returned the same tree before and after a call of markdownToHtml
C17_SameTreeAfterOtherCall ==
  /\ Len(returned) = 2
  /\ pc = "done"
  /\ fn = "htmlToNodes"
  /\ returned[1].fn = fn
  /\ returned[1].arg = arg
  /\ returned[2].fn = "markdownToHtml"
  /\ Len(returned[2].result.value) > 0
  /\ Len(result.value) > 0
  /\ returned[1].result = result

(***************************************************************************)
(* Properties of the closing of frames in htmlToNodes.                     *)
(***************************************************************************)
\* the close tags of the frames, the innermost first
RECURSIVE ClosersOf(_)
ClosersOf(frames) ==
  IF frames = <<>> THEN <<>>
  ELSE <<"<", "/">> \o frames[Len(frames)].tag \o <<">">>
       \o ClosersOf(SubSeq(frames, 1, Len(frames) - 1))

\* the frames that the end of the input leaves on the stack, the outermost first
FramesLeftOpen(s) == ScanLoop(s, 0, EmptyBuilder).stack

\* the input does not end inside an unfinished tag: every "<" has a ">" after it
EndsOutsideTag(s) ==
  \A i \in DOMAIN s : s[i] = "<" => \E j \in (i + 1)..Len(s) : s[j] = ">"

\* C18 as stated: for every input s that leaves the frames t1..tk open, htmlToNodes(s)
\* is htmlToNodes of s followed by </tk>...</t1>, and the stack is empty at the return.
C18_ImplicitClose ==
  (fn = "htmlToNodes" /\ pc = "done")
    => /\ stack = <<>>
       /\ result.value =
            htmlToNodes(arg.content.str \o ClosersOf(FramesLeftOpen(arg.content.str)))

\* C18 amended: the same for every input that does not end inside an unfinished tag
\* (the text that follows an unfinished tag becomes a part of that tag).
C18_ImplicitCloseOutsideTag ==
  (fn = "htmlToNodes" /\ pc = "done" /\ EndsOutsideTag(arg.content.str))
    => /\ stack = <<>>
       /\ result.value =
            htmlToNodes(arg.content.str \o ClosersOf(FramesLeftOpen(arg.content.str)))

\* the two frames of "<p><p>x" have been closed at the end of the input
C18_NestedFramesClosed ==
  /\ fn = "htmlToNodes"
  /\ pc = "done"
  /\ arg.content.str = <<"<", "p", ">", "<", "p", ">", "x">>
  /\ Len(FramesLeftOpen(arg.content.str)) = 2
  /\ result.value = <<[tag |-> T_p, children |-> <<[tag |-> T_p, children |-> <<TextLeaf(<<"x">>)>>]>>]>>

\* the scanning loop is about to read a close tag
CloseTagNext ==
  /\ pc = "scan"
  /\ tagRegexExec(html, lastIndex).kind = "tag"
  /\ tagRegexExec(html, lastIndex).closing

\* the close tag that is read next names an element that is open
MatchesOpenElement ==
  \E i \in DOMAIN stack : stack[i].tag = toLowerCase(tagRegexExec(html, lastIndex).tagName)

\* the top frame as a finished element: attrs and children only when not empty
FinalizedTop == MakeElement(stack[Len(stack)].tag, stack[Len(stack)].attrs, stack[Len(stack)].children)

\* the top frame is popped and appended to the children of the new top, or to the root
TopFramePopped ==
  /\ Len(stack') = Len(stack) - 1
  /\ IF Len(stack) = 1
     THEN stack' = <<>> /\ nodes' = Append(nodes, FinalizedTop)
     ELSE /\ nodes' = nodes
          /\ stack' = [SubSeq(stack, 1, Len(stack) - 1)
                         EXCEPT ![Len(stack) - 1].children = Append(@, FinalizedTop)]

\* C19: a close tag of an open element pops the top frame and appends the finished
\* element to the children of the new top (or to the root); a close tag that matches
\* no open element is dropped, and stack and tree stay as they were.
C19_CloseHandling ==
  [][CloseTagNext => IF MatchesOpenElement THEN TopFramePopped
                     ELSE stack' = stack /\ nodes' = nodes]_vars

(***************************************************************************)
(* Properties of the trees of the two parsers.                             *)
(***************************************************************************)
\* no text leaf is empty, attrs and children are not empty where they are present
RECURSIVE ShapeOk(_)
ShapeOk(ns) ==
  \A i \in DOMAIN ns :
    IF IsText(ns[i]) THEN Len(ns[i].text) > 0
    ELSE /\ HasAttrs(ns[i]) => Len(ns[i].attrs) > 0
         /\ HasChildren(ns[i]) => (Len(ns[i].children) > 0 /\ ShapeOk(ns[i].children))

\* no text leaf starts or ends with white space
RECURSIVE LeavesTrimmed(_)
LeavesTrimmed(ns) ==
  \A i \in DOMAIN ns :
    IF IsText(ns[i])
    THEN Len(ns[i].text) > 0 => (~IsSpace(ns[i].text[1]) /\ ~IsSpace(ns[i].text[Len(ns[i].text)]))
    ELSE HasChildren(ns[i]) => LeavesTrimmed(ns[i].children)

\* C20: in every tree returned by htmlToNodes and by parseHtmlToNodes no text leaf is
\* the empty string, an attrs field that is present has an entry and a children field
\* that is present has a node; no text leaf returned by parseHtmlToNodes has leading
\* or trailing white space.
C20_TreeShape ==
  (fn \in {"htmlToNodes", "parseHtmlToNodes"} /\ pc = "done")
    => /\ ShapeOk(result.value)
       /\ fn = "parseHtmlToNodes" => LeavesTrimmed(result.value)

\* parseHtmlToNodes has returned the tree of "<p>", a text with white space around
\* it, "</p>": the text trimmed, under the p element
C20_TrimmedLeafReturned ==
  /\ fn = "parseHtmlToNodes"
  /\ pc = "done"
  /\ arg.content.str = <<"<", "p", ">", NL, " ", "x", " ", "<", "/", "p", ">">>
  /\ result.value = <<[tag |-> T_p, children |-> <<TextLeaf(<<"x">>)>>]>>

(***************************************************************************)
(* Document order (htmlToNodes).                                           *)
(***************************************************************************)
RECURSIVE PreOrder(_)
\* the pre-order traversal of a tree: the text of a leaf, the tag of an element
PreOrder(ns) ==
  IF ns = <<>> THEN <<>>
  ELSE (IF IsText(ns[1]) THEN <<[text |-> ns[1].text]>>
        ELSE <<[tag |-> ns[1].tag]>>
             \o (IF HasChildren(ns[1]) THEN PreOrder(ns[1].children) ELSE <<>>))
       \o PreOrder(Tail(ns))

RECURSIVE RunsAndOpenTagsFrom(_, _)
RunsAndOpenTagsToken(s, m) ==
  IF m.kind = "none" THEN <<>>
  ELSE (IF m.kind = "text" THEN <<[text |-> m.text]>>
        ELSE IF m.closing THEN <<>>
        ELSE <<[tag |-> toLowerCase(m.tagName)]>>)
       \o RunsAndOpenTagsFrom(s, m.end)

\* the text runs and the open tags of s from offset li, in input order
RunsAndOpenTagsFrom(s, li) == RunsAndOpenTagsToken(s, tagRegexExec(s, li))

\* the next iteration of the scanning loop reads a text run
TextRunNext == pc = "scan" /\ tagRegexExec(html, lastIndex).kind = "text"

\* the leaf of the next text run is appended to the children of the top frame, or
\* to the root on an empty stack, and to nothing else
AppendedToInnermost ==
  IF Len(stack) > 0
  THEN /\ stack' = [stack EXCEPT ![Len(stack)].children =
                      Append(@, TextLeaf(tagRegexExec(html, lastIndex).text))]
       /\ nodes' = nodes
  ELSE /\ nodes' = Append(nodes, TextLeaf(tagRegexExec(html, lastIndex).text))
       /\ stack' = stack

\* C21: document order.  A pre-order traversal of the tree returned by
\* htmlToNodes visits text leaves and elements in the order in which the text
\* runs and the open tags occur in the input, and the step that reads a text
\* run appends it to the innermost open element (the top frame), or to the root
\* when no element is open.
C21_DocumentOrder ==
  /\ []((fn = "htmlToNodes" /\ pc = "done")
          => PreOrder(result.value) = RunsAndOpenTagsFrom(arg.content.str, 0))
  /\ [][(fn = "htmlToNodes" /\ TextRunNext) => AppendedToInnermost]_vars

\* C21 witness: htmlToNodes has returned a text run inside two nested elements
C21_TextInsideTwoElements ==
  /\ fn = "htmlToNodes"
  /\ pc = "done"
  /\ arg.content.str = <<"<", "p", ">", "<", "B", " ", "i", "=", SQ, "1", SQ, ">", "x">>
  /\ PreOrder(result.value) = <<[tag |-> T_p], [tag |-> <<"b">>], [text |-> <<"x">>]>>
  /\ result.value[1].children[1].children = <<TextLeaf(<<"x">>)>>

(***************************************************************************)
(* Lists (markdownToHtml).                                                 *)
(***************************************************************************)
RECURSIVE RunsLoop(_, _, _, _, _)
\* the maximal runs of consecutive lines that are list lines of the kind ("ul":
\* bullet lines, "ol": numbered lines), each run as the texts of its items
RunsLoop(kind, lines, i, run, runs) ==
  IF i > Len(lines) THEN (IF Len(run) > 0 THEN Append(runs, run) ELSE runs)
  ELSE IF kind = "ul" /\ UlMatch(lines[i]).ok
    THEN RunsLoop(kind, lines, i + 1, Append(run, UlMatch(lines[i]).g1), runs)
  ELSE IF kind = "ol" /\ OlMatch(lines[i]).ok
    THEN RunsLoop(kind, lines, i + 1, Append(run, OlMatch(lines[i]).g1), runs)
  ELSE RunsLoop(kind, lines, i + 1, <<>>, IF Len(run) > 0 THEN Append(runs, run) ELSE runs)

\* the runs of bullet lines and of numbered lines of a Markdown text
BulletRuns(s) == IF Len(s) = 0 THEN <<>> ELSE RunsLoop("ul", Split(s, NL), 1, <<>>, <<>>)
NumberedRuns(s) == IF Len(s) = 0 THEN <<>> ELSE RunsLoop("ol", Split(s, NL), 1, <<>>, <<>>)

\* the children of a list element, each as its tag and its text
ItemsOf(el) ==
  IF HasChildren(el)
  THEN [i \in DOMAIN el.children |->
          IF IsText(el.children[i]) THEN [tag |-> <<>>, text |-> el.children[i].text]
          ELSE [tag |-> el.children[i].tag, text |-> TextOf(<<el.children[i]>>)]]
  ELSE <<>>

RECURSIVE ListsOf(_, _)
\* the elements with the given tag in a tree, in document order, each as its items
ListsOf(ns, tag) ==
  IF ns = <<>> THEN <<>>
  ELSE (IF IsText(ns[1]) THEN <<>>
        ELSE (IF ns[1].tag = tag THEN <<ItemsOf(ns[1])>> ELSE <<>>)
             \o (IF HasChildren(ns[1]) THEN ListsOf(ns[1].children, tag) ELSE <<>>))
       \o ListsOf(Tail(ns), tag)

\* the list elements that the runs should give: one <li> per line, in line order
ListItems(runs) == [r \in DOMAIN runs |-> [k \in DOMAIN runs[r] |-> [tag |-> T_li, text |-> runs[r][k]]]]

\* C22: bullet lists.  For every maximal run of n >= 1 consecutive bullet lines,
\* with "-" or with "*" as prefix, the output of markdownToHtml holds exactly one
\* <ul> element with n <li> items, one per line and in line order, and no other
\* <ul>.
C22_BulletRuns ==
  (fn = "markdownToHtml" /\ pc = "done")
    => ListsOf(htmlToNodes(result.value), T_ul) = ListItems(BulletRuns(arg.content.str))

RECURSIVE MixedRunsLoop(_, _, _, _, _)
\* the maximal runs of bullet lines and of numbered lines, in line order, each as
\* its list tag and the texts of its items; a run ends where the kind of line changes
MixedRunsLoop(lines, i, tag, run, runs) ==
  IF i > Len(lines)
  THEN (IF Len(run) > 0 THEN Append(runs, [tag |-> tag, items |-> run]) ELSE runs)
  ELSE IF UlMatch(lines[i]).ok /\ (tag = T_ul \/ Len(run) = 0)
    THEN MixedRunsLoop(lines, i + 1, T_ul, Append(run, UlMatch(lines[i]).g1), runs)
  ELSE IF OlMatch(lines[i]).ok /\ (tag = T_ol \/ Len(run) = 0)
    THEN MixedRunsLoop(lines, i + 1, T_ol, Append(run, OlMatch(lines[i]).g1), runs)
  ELSE IF Len(run) > 0
    THEN MixedRunsLoop(lines, i, <<>>, <<>>, Append(runs, [tag |-> tag, items |-> run]))
  ELSE MixedRunsLoop(lines, i + 1, <<>>, <<>>, runs)

MixedRuns(s) == IF Len(s) = 0 THEN <<>> ELSE MixedRunsLoop(Split(s, NL), 1, <<>>, <<>>, <<>>)

RECURSIVE BothListsOf(_)
\* the <ul> and <ol> elements of a tree in document order, each as its tag and the
\* texts of its <li> children (a child that is no <li> is kept with its own tag)
BothListsOf(ns) ==
  IF ns = <<>> THEN <<>>
  ELSE (IF IsText(ns[1]) THEN <<>>
        ELSE (IF ns[1].tag \in {T_ul, T_ol}
              THEN <<[tag |-> ns[1].tag, items |-> ItemsOf(ns[1])]>> ELSE <<>>)
             \o (IF HasChildren(ns[1]) THEN BothListsOf(ns[1].children) ELSE <<>>))
       \o BothListsOf(Tail(ns))

\* the list elements that the mixed runs should give
MixedLists(runs) ==
  [r \in DOMAIN runs |->
     [tag |-> runs[r].tag,
      items |-> [k \in DOMAIN runs[r].items |-> [tag |-> T_li, text |-> runs[r].items[k]]]]]

\* C23: mixed lists.  Consecutive numbered lines give a single <ol> with one
\* <li> per line, and where bullet lines are directly followed by numbered lines
\* (or the reverse) the output of markdownToHtml holds a separate <ul> and <ol>,
\* split at the boundary and in line order, no item being lost, duplicated or
\* moved to the other list.
C23_MixedLists ==
  (fn = "markdownToHtml" /\ pc = "done" /\ NumberedRuns(arg.content.str) # <<>>)
    => BothListsOf(htmlToNodes(result.value)) = MixedLists(MixedRuns(arg.content.str))

(***************************************************************************)
(* Images and links (markdownToHtml).                                      *)
(***************************************************************************)
\* a character that stands for the markup of the k-th image
FigureAtom(k) == "FIGURE" \o ToString(k)

RECURSIVE SealFrom(_, _, _)
\* the image f is sealed: the atom k stands for it, and the scan goes on after it
SealMatch(s, i, k, f) ==
  IF f.start = 0 THEN [text |-> SubSeq(s, i, Len(s)), figures |-> <<>>]
  ELSE [text |-> SubSeq(s, i, f.start - 1) \o <<FigureAtom(k)>>
                   \o SealFrom(s, f.m.end + 1, k + 1).text,
        figures |-> <<Replacement("image", f.m, <<>>)>>
                      \o SealFrom(s, f.m.end + 1, k + 1).figures]

\* s from position i with every image replaced by an atom, and the markup of the
\* images in order
SealFrom(s, i, k) == SealMatch(s, i, k, FirstMatch("image", s, i))

\* every atom replaced by the markup it stands for
Unseal(t, figures) ==
  Concat([j \in DOMAIN t |->
            IF \E k \in DOMAIN figures : t[j] = FigureAtom(k)
            THEN figures[CHOOSE k \in DOMAIN figures : t[j] = FigureAtom(k)]
            ELSE <<t[j]>>])

\* every image becomes its figure markup, which is then out of reach, and every
\* link that is left becomes an anchor
ImagesThenLinks(s) ==
  IF Len(s) = 0 THEN s
  ELSE Unseal(ConvertLinks(SealFrom(s, 1, 1).text), SealFrom(s, 1, 1).figures)

\* C24: image before link.  After the image pass and the link pass, every
\* "![alt](src)" of the text has become
\* <figure><img src="src"/><figcaption>alt</figcaption></figure> and not an
\* anchor, every "[text](url)" not preceded by "!" has become
\* <a href="url">text</a>, and the link pass has not rewritten the markup
\* produced by the image pass.
C24_ImageBeforeLink ==
  (fn = "markdownToHtml" /\ pc = "bold" /\ codeBlocks = <<>> /\ inlineCodes = <<>>)
    => html = ImagesThenLinks(ConvertRules(ConvertHeaders(arg.content.str)))

(***************************************************************************)
(* Emphasis (markdownToHtml).                                              *)
(***************************************************************************)
RECURSIVE PiecesOf(_, _)
\* the pieces of emphasis that s is made of from position i (no piece is the
\* beginning of another); a character that starts no piece is a piece of its own
PiecesOf(s, i) ==
  IF i > Len(s) THEN <<>>
  ELSE IF \E c \in EmphasisChunks : StartsAt(s, c, i)
    THEN <<CHOOSE c \in EmphasisChunks : StartsAt(s, c, i)>>
         \o PiecesOf(s, i + Len(CHOOSE c \in EmphasisChunks : StartsAt(s, c, i)))
  ELSE <<<<s[i]>>>> \o PiecesOf(s, i + 1)

IsBoldPiece(c) == \E d \in {"*", "_"} : c = Delimited(d, 2, <<"t">>)
IsItalicPiece(c) == \E d \in {"*", "_"} : c = Delimited(d, 1, <<"t">>)

\* the pieces once the bold ones are <b>t</b>
BoldDone(ps) == [k \in DOMAIN ps |-> IF IsBoldPiece(ps[k]) THEN Wrap(<<"b">>, <<"t">>) ELSE ps[k]]

\* the piece k stands at word boundaries: no word character touches it
AtWordBoundaries(ps, k) ==
  /\ (k = 1 \/ ~IsWord(ps[k - 1][Len(ps[k - 1])]))
  /\ (k = Len(ps) \/ ~IsWord(ps[k + 1][1]))

\* bold pieces are <b>t</b>, italic pieces at word boundaries are <i>t</i>, and
\* everything else is as it was written
EmphasisDone(ps) ==
  [k \in DOMAIN ps |->
     IF IsItalicPiece(ps[k]) /\ AtWordBoundaries(BoldDone(ps), k)
     THEN Wrap(<<"i">>, <<"t">>)
     ELSE BoldDone(ps)[k]]

\* the positions of s where "**t**" or "__t__" is written
BoldWritten(s) ==
  {i \in DOMAIN s : \E d \in {"*", "_"} : StartsAt(s, Delimited(d, 2, <<"t">>), i)}

\* the positions where the bold pieces start
BoldPieceStarts(ps) ==
  {1 + Len(Concat(SubSeq(ps, 1, k - 1))) : k \in {j \in DOMAIN ps : IsBoldPiece(ps[j])}}

\* no two pieces run into a "**t**" or a "__t__" that neither of them is (as the
\* two italic pieces of "*t**t**t*" do around the middle one)
PiecesKeptApart(s) == BoldWritten(s) = BoldPieceStarts(PiecesOf(s, 1))

AttributesInOrder(node) ==
  IF ~HasAttrs(node) THEN <<>>
  ELSE IF Len(node.attrs) = 0 THEN <<" ">>
  ELSE Concat([i \in DOMAIN node.attrs |->
                 <<" ">> \o node.attrs[i][1] \o <<"=", DQ>> \o node.attrs[i][2] \o <<DQ>>])

RECURSIVE Markup(_)
\* the markup of a tree: leaves as they are, br, hr and img as one self-closed tag
\* without their children, any other element as open tag, children, close tag
Markup(ns) ==
  IF ns = <<>> THEN <<>>
  ELSE (IF IsText(ns[1]) THEN ns[1].text
        ELSE IF ns[1].tag \in {T_br, T_hr, T_img}
          THEN <<"<">> \o ns[1].tag \o AttributesInOrder(ns[1]) \o <<"/", ">">>
        ELSE OpenTag(ns[1].tag \o AttributesInOrder(ns[1]))
             \o (IF HasChildren(ns[1]) THEN Markup(ns[1].children) ELSE <<>>)
             \o CloseTag(ns[1].tag))
       \o Markup(Tail(ns))

RECURSIVE TrimTree(_)
\* an element around its trimmed children; the children field goes when none is left
TrimElement(node, children) ==
  IF Len(children) > 0 THEN [node EXCEPT !.children = children]
  ELSE [f \in DOMAIN node \ {"children"} |-> node[f]]

\* a tree with every text leaf trimmed, the leaves that become empty removed and
\* the children fields that become empty omitted
TrimTree(ns) ==
  IF ns = <<>> THEN <<>>
  ELSE (IF IsText(ns[1])
        THEN (IF Len(Trim(ns[1].text)) > 0 THEN <<TextLeaf(Trim(ns[1].text))>> ELSE <<>>)
        ELSE IF HasChildren(ns[1]) THEN <<TrimElement(ns[1], TrimTree(ns[1].children))>>
        ELSE <<ns[1]>>)
       \o TrimTree(Tail(ns))

\* C27: two parsers, one difference.  For every markup string s,
\* parseHtmlToNodes(s) equals htmlToNodes(s) with every text leaf trimmed, the
\* leaves that become empty removed and the children fields that become empty
\* omitted: the tree either parser has returned is checked against the other
\* parser.
C27_ParsersAgreeUpToTrimming ==
  /\ (fn = "parseHtmlToNodes" /\ pc = "done")
       => result.value = TrimTree(htmlToNodes(arg.content.str))
  /\ (fn = "htmlToNodes" /\ pc = "done")
       => parseHtmlToNodes(arg.content.str) = TrimTree(result.value)

\* C27 witness: the template parser has returned a paragraph without children
\* where htmlToNodes keeps a blank text leaf
C27_BlankLeafDropped ==
  /\ fn = "parseHtmlToNodes"
  /\ pc = "done"
  /\ arg.content.str = <<"<", "p", ">", " ", "<", "/", "p", ">">>
  /\ result.value = <<[tag |-> T_p]>>
  /\ htmlToNodes(arg.content.str) = <<[tag |-> T_p, children |-> <<TextLeaf(<<" ">>)>>]>>

(***************************************************************************)
(* Validation of createFromTemplate.                                       *)
(***************************************************************************)
\* the call ran up to the call of generate or beyond it
GenerateReached == pc \in {"generate", "templateScan", "templateUnclosed", "done"}

\* the call has ended
CreateEnded == fn = "createFromTemplate" /\ pc \in {"thrown", "done"}

\* every required field of the registered template has a value
AllRequiredGiven(call) ==
  /\ call.name \in DOMAIN templates
  /\ MissingFields(templates[call.name].fields, call.data) = {}

\* C28: a name that is no registered template ends the call with the Error
\* 'Template "name" not found'; otherwise the first required field, in the
\* order of the declaration, whose value is undefined or null ends it with
\* the Error 'Required field "f" is missing'; generate runs only after both
\* checks passed, and the call returns only then, and what it returns is the
\* parsed nodes of the generated markup.
C28_TemplateValidation ==
  /\ (CreateEnded /\ arg.name \notin DOMAIN templates)
       => (pc = "thrown" /\ result = Error(<<"Template \"", arg.name, "\" not found">>))
  /\ (CreateEnded /\ arg.name \in DOMAIN templates /\ ~AllRequiredGiven(arg))
       => (pc = "thrown"
           /\ result = Error(<<"Required field \"",
                               FirstMissing(templates[arg.name].fields, arg.data),
                               "\" is missing">>))
  /\ (fn = "createFromTemplate" /\ GenerateReached) => AllRequiredGiven(arg)
  /\ (fn = "createFromTemplate" /\ pc = "done")
       => result = Returned("nodes", parseHtmlToNodes(Generate(arg.name, arg.data).html))

(***************************************************************************)
(* Failure isolation (backupAccount).                                      *)
(***************************************************************************)
\* the answer yields an entry of the backup: a page with a content that converts
Exportable(answer) ==
  answer.ok /\ ~NoContent(answer.content) /\ ~ConvertThrows(answer.content)

\* the positions in the page list of the pages that yield an entry, in list order
ExportedPositions(env) ==
  SelectSeq([i \in 1..Len(env.pages) |-> i], LAMBDA i : Exportable(env.pages[i]))

\* the entry of the page at a position of the list, whatever the other pages do
EntryAt(call, i) ==
  ExportedPage(PageOf(call.env.list.paths[i], call.env.pages[i].content),
               FormatOrDefault(call.format))

ExpectedPages(call) ==
  [k \in DOMAIN ExportedPositions(call.env) |-> EntryAt(call, ExportedPositions(call.env)[k])]

\* C29: once the page list is there, backupAccount asks for the listed pages
\* one at a time in list order and never ends with an exception; the pages of
\* the result are the entries of exactly those listed pages whose getPage
\* returned a page with a content that converts, in list order, each entry
\* being what that page alone yields; exported_count is the length of pages
\* and at most the number of listed pages.
C29_BackupIsolation ==
  /\ []((fn = "backupAccount" /\ pc = "thrown") => ~arg.env.list.ok)
  /\ []((fn = "backupAccount" /\ pc = "done")
          => /\ result.value.pages = ExpectedPages(arg)
             /\ result.value.exported_count = Len(result.value.pages)
             /\ result.value.exported_count <= Len(arg.env.list.paths)
             /\ result.value.total_count = arg.env.list.total_count)
  /\ [][(fn = "backupAccount" /\ pc = "pages" /\ pc' = "pages")
          => /\ pageIndex' = pageIndex + 1
             /\ request' = GetPageRequest(arg.env.list.paths[pageIndex'])
             /\ SubSeq(exportedPages', 1, Len(exportedPages)) = exportedPages]_vars

\* C29 witness: a backup of three listed pages has returned one entry: the
\* first getPage failed, the second page had no content, the third was exported
C29_FailedSkippedExported ==
  /\ fn = "backupAccount"
  /\ pc = "done"
  /\ Len(arg.env.pages) = 3
  /\ ~arg.env.pages[1].ok
  /\ arg.env.pages[2].ok /\ NoContent(arg.env.pages[2].content)
  /\ Exportable(arg.env.pages[3])
  /\ result.value.exported_count = 1
  /\ result.value.pages[1].path = arg.env.list.paths[3]

(***************************************************************************)
(* Termination (htmlToNodes).                                              *)
(***************************************************************************)
RECURSIVE OpenTagsBetween(_, _, _)
OpenTagsUpTo(s, m, upto) ==
  IF m.kind = "none" \/ m.end > upto THEN 0
  ELSE (IF m.kind = "tag" /\ ~m.closing THEN 1 ELSE 0) + OpenTagsBetween(s, m.end, upto)

\* the number of opening tags among the matches of tagRegex in s that start at
\* offset li or later and end at offset upto or before
OpenTagsBetween(s, li, upto) ==
  IF li >= upto THEN 0 ELSE OpenTagsUpTo(s, tagRegexExec(s, li), upto)

\* the final loop has popped the inner one of two frames that no closing tag closed
C30_InnerFramePopped ==
  /\ fn = "htmlToNodes"
  /\ pc = "unclosed"
  /\ OpenTagsBetween(html, 0, Len(html)) = 2
  /\ \A i \in DOMAIN html : html[i] # "/"
  /\ Len(stack) = 1
  /\ \E i \in DOMAIN stack[1].children : "tag" \in DOMAIN stack[1].children[i]

\* C30: every call of htmlToNodes ends.  Each iteration of the scanning loop
\* moves lastIndex forward by at least one character and never past the end of
\* the input; the stack is never deeper than the number of opening tags read
\* so far; each iteration of the final loop makes the stack one frame
\* shorter, and the call returns with an empty stack.
C30_Termination ==
  /\ (fn = "htmlToNodes" => Len(stack) <= OpenTagsBetween(html, 0, lastIndex))
  /\ [][fn = "htmlToNodes"
          => /\ (pc = "scan" /\ pc' = "scan")
                  => (lastIndex' > lastIndex /\ lastIndex' <= Len(html))
             /\ Len(stack') <= OpenTagsBetween(html', 0, lastIndex')
             /\ (pc = "unclosed" /\ pc' = "unclosed") => Len(stack') = Len(stack) - 1
             /\ pc' = "done" => stack' = <<>>]_vars
  /\ <>(fn = "htmlToNodes" /\ pc = "done")
====
